---- MODULE Spec2Model ----
(***************************************************************************)
(* Verification model of the sguaba-celestial crate.                       *)
(*                                                                         *)
(*   cached.rs       CachedTransform: handles onto a shared, lock-guarded  *)
(*                   Option<CacheEntry>, with get_or_compute, invalidate,  *)
(*                   is_valid_for and Clone.                               *)
(*   time_scales.rs  validate_epoch.                                       *)
(*   tle.rs          TleElements::from_lines, tle_epoch_to_datetime,       *)
(*                   to_keplerian and propagate_to.                        *)
(*   orbital.rs      KeplerianElements::propagate_to and to_state_vectors. *)
(*   constants.rs    the OnceLock statics behind mci_to_icrs_rotation and  *)
(*                   polar_motion_correction.                              *)
(***************************************************************************)
EXTENDS Integers, Sequences, FiniteSets, TLC

VARIABLES
    handles,    \* the CachedTransform values alive: handle -> [cell, tol, root]
    cells,      \* contents of each Arc<RwLock<Option<CacheEntry>>>
    rlock,      \* per cell: the threads holding its RwLock for reading
    wlock,      \* per cell: the thread holding its RwLock for writing, or NoThread
    stack,      \* per thread: its call stack on the cache API (innermost last)
    lastPub,    \* history: per cache (root handle) the last write: [entry, via, op]
    ncalls,     \* history: number of API calls begun
    vEpoch,     \* validate_epoch: the argument
    vResult,    \* validate_epoch: the CelestialResult<()> returned
    line1,      \* TleElements::from_lines: first argument, a sequence of chars
    line2,      \* TleElements::from_lines: second argument
    tle,        \* TleElements::from_lines: the outcome of the call
    tle_target, \* TleElements::propagate_to: the target epoch
    tle_position,   \* TleElements::propagate_to: the CelestialResult returned
    elements,       \* KeplerianElements: the record the calls are made on
    target_epoch,   \* KeplerianElements::propagate_to: first argument
    current_epoch,  \* KeplerianElements::propagate_to: second argument
    propagation,    \* KeplerianElements::propagate_to: the call in progress
    state_vectors,  \* KeplerianElements::to_state_vectors: the pair returned
    once,       \* per OnceLock static: its state, value and initialiser runs
    getting,    \* per thread: its call of mci_to_icrs_rotation or
                \* polar_motion_correction
    input,      \* the free functions: the argument the calls are made with
    output      \* the free functions: per function called, the value returned

cacheVars == <<handles, cells, rlock, wlock, stack, lastPub, ncalls>>

validateVars == <<vEpoch, vResult>>

tleVars == <<line1, line2, tle, tle_target, tle_position>>

orbitVars == <<elements, target_epoch, current_epoch, propagation, state_vectors>>

onceVars == <<once, getting>>

fnVars == <<input, output>>

vars == <<handles, cells, rlock, wlock, stack, lastPub, ncalls, vEpoch, vResult,
          line1, line2, tle, tle_target, tle_position,
          elements, target_epoch, current_epoch, propagation, state_vectors,
          once, getting, input, output>>

(***************************************************************************)
(* Bounds of the model.                                                    *)
(***************************************************************************)
TicksPerSecond == 2     \* sub-second resolution of a timestamp, in ticks
MaxEpoch == 2           \* epochs are 0..MaxEpoch ticks
MaxTol == 2             \* tolerances are -MaxTol..MaxTol ticks
MaxTransform == 2       \* distinct transforms a compute_fn may return
MaxHandles == 2         \* CachedTransform values alive at once
MaxCalls == 3           \* API calls begun in one run
MaxDepth == 2           \* nesting of calls made from inside compute_fn
EpochSpan == 20         \* days tried on each side of a year limit
EraSpan == 40           \* quarter days tried on each side of J2000
MaxComponent == 1       \* components of the points tried by TransformSpec, in m
MaxDistance == 2        \* distances tried by SphericalSpec, in units of 25 m

Threads == {"t1", "t2"}
MainThread == "t1"
NoThread == "none"

Epochs == 0..MaxEpoch
Tolerances == (0 - MaxTol)..MaxTol
Transforms == 1..MaxTransform
HandleIds == 1..MaxHandles
Ops == {"get_or_compute", "invalidate", "is_valid_for"}

(***************************************************************************)
(* Option<CacheEntry<From, To>>  (cached.rs 43, 47-51)                     *)
(***************************************************************************)
None == [some |-> FALSE, transform |-> 0, epoch |-> 0]

CacheEntry(tr, ep) == [some |-> TRUE, transform |-> tr, epoch |-> ep]

(***************************************************************************)
(* chrono::Duration::num_seconds: the whole seconds of a duration, the     *)
(* fraction dropped towards zero.                                          *)
(***************************************************************************)
NumSeconds(d) ==
    IF d >= 0 THEN d \div TicksPerSecond ELSE 0 - ((0 - d) \div TicksPerSecond)

Abs(n) == IF n >= 0 THEN n ELSE 0 - n

\* cached.rs 85-86 and 118-119: the validity test of an entry for an epoch.
WithinTolerance(epoch, entry, tol) ==
    LET time_diff == Abs(NumSeconds(epoch - entry.epoch))
    IN  time_diff <= NumSeconds(tol)

\* A validity test with the comparison made strict.
IsHitStrict(epoch, entry, tol) ==
    entry.some /\ Abs(NumSeconds(epoch - entry.epoch)) < NumSeconds(tol)

\* cached.rs 84-89: the read path's decision.
IsHit(epoch, entry, tol) == entry.some /\ WithinTolerance(epoch, entry, tol)

(***************************************************************************)
(* Handles.  CachedTransform::new (cached.rs 59-64) allocates a fresh      *)
(* cell; Clone (cached.rs 126-133) copies the Arc and the tolerance.       *)
(***************************************************************************)
\* history record of the last write to a cache: the entry written, the handle
\* it was written through and the method that wrote it ("new": none yet).
Written(entry, h, op) == [entry |-> entry, via |-> h, op |-> op]

\* A call not made yet.
Pending == [tag |-> "pending"]

\* The state of validate_epoch and of from_lines in the specifications that do
\* not use them.
ValidateIdle ==
    /\ vEpoch = [days |-> 0, secs |-> 0]
    /\ vResult = Pending

TleIdle ==
    /\ line1 = << >>
    /\ line2 = << >>
    /\ tle = Pending
    /\ tle_target = [days |-> 0, secs |-> 0]
    /\ tle_position = Pending

\* The state of the orbit calls and of the OnceLock statics in the
\* specifications that do not use them.
OrbitIdle ==
    /\ elements = Pending
    /\ target_epoch = [days |-> 0, secs |-> 0]
    /\ current_epoch = [days |-> 0, secs |-> 0]
    /\ propagation = Pending
    /\ state_vectors = Pending

OnceIdle ==
    /\ once = << >>
    /\ getting = << >>

\* The state of the free functions in the specifications that do not call them.
FnIdle ==
    /\ input = << >>
    /\ output = << >>

\* The state the cache is left in by the specifications that do not use it.
CacheIdle ==
    /\ handles = << >>
    /\ cells = [c \in HandleIds |-> None]
    /\ rlock = [c \in HandleIds |-> {}]
    /\ wlock = [c \in HandleIds |-> NoThread]
    /\ stack = [t \in Threads |-> << >>]
    /\ lastPub = [c \in HandleIds |-> Written(None, c, "new")]
    /\ ncalls = 0

Handle(c, tol, root) == [cell |-> c, tol |-> tol, root |-> root]

CellOf(h) == handles[h].cell

\* A clone that allocates its own, empty cell instead of sharing.
ArcCloneFresh(h) == Len(handles) + 1

\* cached.rs 129: Arc::clone(&self.cached) is the same cell.
ArcClone(h) == handles[h].cell

Clone(h) ==
    /\ Len(handles) < MaxHandles
    /\ handles' = Append(handles, Handle(ArcClone(h), handles[h].tol, handles[h].root))
    /\ UNCHANGED <<cells, rlock, wlock, stack, lastPub, ncalls, validateVars, tleVars, orbitVars, onceVars, fnVars>>

(***************************************************************************)
(* Call frames.  pc is the position of the call in its method body:        *)
(*   "read"     about to take self.cached.read()        (83, 116)          *)
(*   "check"    holding the read guard                  (84-89, 117-122)   *)
(*   "compute"  inside compute_fn(epoch)                (93)               *)
(*   "write"    about to take self.cached.write()       (97, 109)          *)
(*   "store"    holding the write guard                 (98-101, 110)      *)
(*   "done"     returned                                                   *)
(***************************************************************************)
Frame(op, h, e) ==
    [op         |-> op,
     h          |-> h,
     epoch      |-> e,
     pc         |-> IF op = "invalidate" THEN "write" ELSE "read",
     args       |-> << >>,          \* epochs compute_fn was invoked with
     new_transform |-> 0,           \* what compute_fn returned (0: nothing yet)
     seen       |-> None,           \* history: the entry present when the read guard was taken
     retTransform |-> 0,            \* get_or_compute's return value
     retValid   |-> FALSE,          \* is_valid_for's return value
     startEntry |-> cells[CellOf(h)],          \* history: entry when the call began
     startPub   |-> lastPub[handles[h].root]]  \* history: lastPub when it began

Depth(t) == Len(stack[t])

Top(t) == stack[t][Len(stack[t])]

Running(t) == Depth(t) > 0 /\ Top(t).pc # "done"

SetTop(t, f) == [stack EXCEPT ![t][Len(stack[t])] = f]

\* A thread calls a method of handle h from its top level.
Begin(t, op, h, e) ==
    /\ ncalls < MaxCalls
    /\ h \in 1..Len(handles)
    /\ \/ Depth(t) = 0
       \/ Depth(t) = 1 /\ Top(t).pc = "done"
    /\ stack' = [stack EXCEPT ![t] = << Frame(op, h, e) >>]
    /\ ncalls' = ncalls + 1
    /\ UNCHANGED <<handles, cells, rlock, wlock, lastPub, validateVars, tleVars, orbitVars, onceVars, fnVars>>

\* compute_fn, while it runs, calls a method of the cache it was given to.
Nested(t, op, h, e) ==
    /\ ncalls < MaxCalls
    /\ h \in 1..Len(handles)
    /\ Depth(t) > 0 /\ Depth(t) < MaxDepth
    /\ Top(t).pc = "compute"
    /\ stack' = [stack EXCEPT ![t] = Append(@, Frame(op, h, e))]
    /\ ncalls' = ncalls + 1
    /\ UNCHANGED <<handles, cells, rlock, wlock, lastPub, validateVars, tleVars, orbitVars, onceVars, fnVars>>

\* The nested call returns into compute_fn.
Return(t) ==
    /\ Depth(t) > 1
    /\ Top(t).pc = "done"
    /\ stack' = [stack EXCEPT ![t] = SubSeq(@, 1, Len(@) - 1)]
    /\ UNCHANGED <<handles, cells, rlock, wlock, lastPub, ncalls, validateVars, tleVars, orbitVars, onceVars, fnVars>>

(***************************************************************************)
(* std::sync::RwLock: read() waits while a writer holds the lock, write()  *)
(* waits while anyone holds it.                                            *)
(***************************************************************************)
CanRead(c) == wlock[c] = NoThread

CanWrite(c) == wlock[c] = NoThread /\ rlock[c] = {}

\* The read guard outlives the block it was taken in.
KeepReadGuard(rd, t) == rd

\* cached.rs 87, 90, 123: the read guard is dropped at the end of its block.
DropReadGuard(rd, t) == rd \ {t}

\* cached.rs 83, 116
AcquireRead(t) ==
    /\ Running(t)
    /\ Top(t).pc = "read"
    /\ CanRead(CellOf(Top(t).h))
    /\ rlock' = [rlock EXCEPT ![CellOf(Top(t).h)] = @ \cup {t}]
    /\ stack' = SetTop(t, [Top(t) EXCEPT !.pc = "check",
                                          !.seen = cells[CellOf(Top(t).h)]])
    /\ UNCHANGED <<handles, cells, wlock, lastPub, ncalls, validateVars, tleVars, orbitVars, onceVars, fnVars>>

\* A read path that moves the entry's epoch to the epoch of the hit.
CheckCacheSliding(t) ==
    LET f == Top(t)
        c == CellOf(f.h)
        entry == cells[c]
    IN  /\ Running(t)
        /\ f.op = "get_or_compute"
        /\ f.pc = "check"
        /\ rlock' = [rlock EXCEPT ![c] = DropReadGuard(@, t)]
        /\ IF IsHit(f.epoch, entry, handles[f.h].tol)
           THEN /\ stack' = SetTop(t, [f EXCEPT !.retTransform = entry.transform,
                                                !.pc = "done"])
                /\ cells' = [cells EXCEPT ![c].epoch = f.epoch]
           ELSE /\ stack' = SetTop(t, [f EXCEPT !.args = Append(@, f.epoch),
                                                !.pc = "compute"])
                /\ UNCHANGED cells
        /\ UNCHANGED <<handles, wlock, lastPub, ncalls, validateVars, tleVars, orbitVars, onceVars, fnVars>>

\* cached.rs 84-90: the read path of get_or_compute; a miss goes on to call
\* compute_fn(epoch) at line 93.
CheckCache(t) ==
    LET f == Top(t)
        c == CellOf(f.h)
        entry == cells[c]
    IN  /\ Running(t)
        /\ f.op = "get_or_compute"
        /\ f.pc = "check"
        /\ rlock' = [rlock EXCEPT ![c] = DropReadGuard(@, t)]
        /\ IF IsHit(f.epoch, entry, handles[f.h].tol)
           THEN stack' = SetTop(t, [f EXCEPT !.retTransform = entry.transform,
                                             !.pc = "done"])
           ELSE stack' = SetTop(t, [f EXCEPT !.args = Append(@, f.epoch),
                                             !.pc = "compute"])
        /\ UNCHANGED <<handles, cells, wlock, lastPub, ncalls, validateVars, tleVars, orbitVars, onceVars, fnVars>>

\* cached.rs 93: compute_fn returns a transform.
ComputeReturn(t, tr) ==
    /\ Running(t)
    /\ Top(t).pc = "compute"
    /\ stack' = SetTop(t, [Top(t) EXCEPT !.new_transform = tr, !.pc = "write"])
    /\ UNCHANGED <<handles, cells, rlock, wlock, lastPub, ncalls, validateVars, tleVars, orbitVars, onceVars, fnVars>>

\* cached.rs 97, 109
AcquireWrite(t) ==
    /\ Running(t)
    /\ Top(t).pc = "write"
    /\ CanWrite(CellOf(Top(t).h))
    /\ wlock' = [wlock EXCEPT ![CellOf(Top(t).h)] = t]
    /\ stack' = SetTop(t, [Top(t) EXCEPT !.pc = "store"])
    /\ UNCHANGED <<handles, cells, rlock, lastPub, ncalls, validateVars, tleVars, orbitVars, onceVars, fnVars>>

\* An entry that keeps the epoch of the entry it replaces.
NewEntryStaleEpoch(old, tr, ep) == CacheEntry(tr, IF old.some THEN old.epoch ELSE ep)

\* cached.rs 98-101: Some(CacheEntry { transform: new_transform, epoch })
NewEntry(old, tr, ep) == CacheEntry(tr, ep)

\* A publish that looks at the cell again and stores only if the cell is still
\* as the read path saw it.
PublishIfUnchanged(t) ==
    LET f == Top(t)
        c == CellOf(f.h)
    IN  /\ Running(t)
        /\ f.op = "get_or_compute"
        /\ f.pc = "store"
        /\ IF cells[c] = f.seen /\ lastPub[handles[f.h].root] = f.startPub
           THEN /\ cells' = [cells EXCEPT ![c] = NewEntry(@, f.new_transform, f.epoch)]
                /\ lastPub' = [lastPub EXCEPT ![handles[f.h].root] =
                                   Written(CacheEntry(f.new_transform, f.epoch), f.h, f.op)]
           ELSE UNCHANGED <<cells, lastPub>>
        /\ wlock' = [wlock EXCEPT ![c] = NoThread]
        /\ stack' = SetTop(t, [f EXCEPT !.retTransform = f.new_transform,
                                        !.pc = "done"])
        /\ UNCHANGED <<handles, rlock, ncalls, validateVars, tleVars, orbitVars, onceVars, fnVars>>

\* cached.rs 96-104: publish under the write guard and return new_transform.
Publish(t) ==
    LET f == Top(t)
        c == CellOf(f.h)
    IN  /\ Running(t)
        /\ f.op = "get_or_compute"
        /\ f.pc = "store"
        /\ cells' = [cells EXCEPT ![c] = NewEntry(@, f.new_transform, f.epoch)]
        /\ lastPub' = [lastPub EXCEPT ![handles[f.h].root] =
                            Written(CacheEntry(f.new_transform, f.epoch), f.h, f.op)]
        /\ wlock' = [wlock EXCEPT ![c] = NoThread]
        /\ stack' = SetTop(t, [f EXCEPT !.retTransform = f.new_transform,
                                        !.pc = "done"])
        /\ UNCHANGED <<handles, rlock, ncalls, validateVars, tleVars, orbitVars, onceVars, fnVars>>

\* An invalidate that leaves the entry in place.
ClearedKeep(old) == old

\* cached.rs 110: *cache_write = None
Cleared(old) == None

\* cached.rs 108-111
Invalidate(t) ==
    LET f == Top(t)
        c == CellOf(f.h)
    IN  /\ Running(t)
        /\ f.op = "invalidate"
        /\ f.pc = "store"
        /\ cells' = [cells EXCEPT ![c] = Cleared(@)]
        /\ lastPub' = [lastPub EXCEPT ![handles[f.h].root] = Written(None, f.h, f.op)]
        /\ wlock' = [wlock EXCEPT ![c] = NoThread]
        /\ stack' = SetTop(t, [f EXCEPT !.pc = "done"])
        /\ UNCHANGED <<handles, rlock, ncalls, validateVars, tleVars, orbitVars, onceVars, fnVars>>

\* cached.rs 115-123
IsValidFor(t) ==
    LET f == Top(t)
        c == CellOf(f.h)
        entry == cells[c]
    IN  /\ Running(t)
        /\ f.op = "is_valid_for"
        /\ f.pc = "check"
        /\ rlock' = [rlock EXCEPT ![c] = DropReadGuard(@, t)]
        /\ stack' = SetTop(t, [f EXCEPT !.retValid = IsHit(f.epoch, entry, handles[f.h].tol),
                                        !.pc = "done"])
        /\ UNCHANGED <<handles, cells, wlock, lastPub, ncalls, validateVars, tleVars, orbitVars, onceVars, fnVars>>


(***************************************************************************)
(* chrono::DateTime<Utc>, to the second: the day number counted from       *)
(* 1970-01-01 and the second of that day.  The calendar is the proleptic  *)
(* Gregorian one chrono uses.                                              *)
(***************************************************************************)
DateTime(days, secs) == [days |-> days, secs |-> secs]

IsLeapYear(y) == (y % 4 = 0 /\ y % 100 # 0) \/ y % 400 = 0

\* Day number of the civil date y-m-d.
DaysFromCivil(y, m, d) ==
    LET yy  == IF m <= 2 THEN y - 1 ELSE y
        era == yy \div 400
        yoe == yy - era * 400
        mp  == IF m > 2 THEN m - 3 ELSE m + 9
        doy == (153 * mp + 2) \div 5 + d - 1
        doe == yoe * 365 + yoe \div 4 - yoe \div 100 + doy
    IN  era * 146097 + doe - 719468

\* Datelike::year of the date with the given day number.
YearOfDays(days) ==
    LET z   == days + 719468
        era == z \div 146097
        doe == z - era * 146097
        yoe == (doe - doe \div 1460 + doe \div 36524 - doe \div 146096) \div 365
        doy == doe - (365 * yoe + yoe \div 4 - yoe \div 100)
        mp  == (5 * doy + 2) \div 153
        m   == IF mp < 10 THEN mp + 3 ELSE mp - 9
        y   == yoe + era * 400
    IN  IF m <= 2 THEN y + 1 ELSE y

\* time_scales.rs 52: epoch.year()
Year(dt) == YearOfDays(dt.days)

(***************************************************************************)
(* validate_epoch  (time_scales.rs 51-64)                                  *)
(***************************************************************************)
MIN_VALID_YEAR == 1900

MAX_VALID_YEAR == 2100

\* The Julian Dates of the error, in tenths of a day.
MinJdTenths == 24150205

MaxJdTenths == 24880705

Ok(v) == [tag |-> "Ok", value |-> v]

EpochOutOfRange(epoch, min_jd, max_jd) ==
    [tag |-> "Err", variant |-> "EpochOutOfRange",
     epoch |-> epoch, min_jd |-> min_jd, max_jd |-> max_jd]

\* A range check that leaves the last valid year out.
YearInRangeExclusive(year) == year >= MIN_VALID_YEAR /\ year < MAX_VALID_YEAR

\* time_scales.rs 53: (MIN_VALID_YEAR..=MAX_VALID_YEAR).contains(&year)
YearInRange(year) == year >= MIN_VALID_YEAR /\ year <= MAX_VALID_YEAR

validate_epoch(epoch) ==
    LET year == Year(epoch) IN
    IF ~ YearInRange(year)
    THEN EpochOutOfRange(epoch, MinJdTenths, MaxJdTenths)
    ELSE Ok("unit")

\* The instants tried: the days around the first and the last valid year's
\* limits and a modern date, at both ends and the middle of the day.
FirstValidDay == DaysFromCivil(MIN_VALID_YEAR, 1, 1)

FirstInvalidDay == DaysFromCivil(MAX_VALID_YEAR + 1, 1, 1)

EpochDays ==
    ((FirstValidDay - EpochSpan)..(FirstValidDay + EpochSpan))
        \cup ((FirstInvalidDay - EpochSpan)..(FirstInvalidDay + EpochSpan))
        \cup {DaysFromCivil(MAX_VALID_YEAR, 1, 1), DaysFromCivil(2020, 7, 24), 0}

EpochSecs == {0, 43200, 86399}

ValidateInit ==
    /\ CacheIdle
    /\ vEpoch \in {DateTime(d, s) : d \in EpochDays, s \in EpochSecs}
    /\ vResult = Pending
    /\ TleIdle
    /\ OrbitIdle
    /\ OnceIdle
    /\ FnIdle

ValidateEpoch ==
    /\ vResult = Pending
    /\ vResult' = validate_epoch(vEpoch)
    /\ UNCHANGED <<vEpoch, cacheVars, tleVars, orbitVars, onceVars, fnVars>>

ValidateNext == ValidateEpoch

ValidateSpec == ValidateInit /\ [][ValidateNext]_vars

(***************************************************************************)
(* Time scales  (time_scales.rs 66-138).  A Julian Date is kept exactly,   *)
(* as whole days and milliseconds counted from JD 2440587.5, the Julian    *)
(* Date of 1970-01-01T00:00:00: the offsets of the time scales are whole   *)
(* milliseconds and timestamp() is in whole seconds.                       *)
(***************************************************************************)
\* constants.rs 16: SECONDS_PER_DAY
SecondsPerDay == 86400

MillisPerSecond == 1000

\* constants.rs 16: SECONDS_PER_DAY, in milliseconds
MillisPerDay == SecondsPerDay * MillisPerSecond

\* constants.rs 85: the Julian Date of the Unix epoch, in tenths of a day
UnixEpochJdTenths == 24405875

\* time_scales.rs 23, in milliseconds
CURRENT_LEAP_SECONDS == 37000

\* time_scales.rs 26, in milliseconds
TT_MINUS_TAI == 32184

JulianDate(days, ms) ==
    [days |-> days + ms \div MillisPerDay, ms |-> ms % MillisPerDay]

\* The Julian Date written with one decimal, as the limits of validate_epoch are.
JulianDateOfTenths(tenths) ==
    JulianDate((tenths - UnixEpochJdTenths) \div 10,
               ((tenths - UnixEpochJdTenths) % 10) * (MillisPerDay \div 10))

\* jd + seconds / SECONDS_PER_DAY, the seconds given in milliseconds
JdPlus(jd, ms) == JulianDate(jd.days, jd.ms + ms)

\* a <= b on Julian Dates
JdLeq(a, b) == a.days < b.days \/ (a.days = b.days /\ a.ms <= b.ms)

\* (a - b) * SECONDS_PER_DAY, in milliseconds
JdMinus(a, b) == (a.days - b.days) * MillisPerDay + a.ms - b.ms

\* constants.rs 85, time_scales.rs 76, 87, 101:
\* time.timestamp() as f64 / SECONDS_PER_DAY + 2440587.5
JulianDateOfTimestamp(time) == JulianDate(time.days, time.secs * MillisPerSecond)

\* time_scales.rs 75-78
utc_to_tai(utc) == JdPlus(JulianDateOfTimestamp(utc), CURRENT_LEAP_SECONDS)

\* A conversion to TT that leaves the leap seconds out.
utc_to_tt_without_leap_seconds(utc) == JdPlus(JulianDateOfTimestamp(utc), TT_MINUS_TAI)

\* time_scales.rs 86-89
utc_to_tt(utc) ==
    JdPlus(JulianDateOfTimestamp(utc), CURRENT_LEAP_SECONDS + TT_MINUS_TAI)

\* time_scales.rs 100-103
utc_to_ut1(utc) == JulianDateOfTimestamp(utc)

\* time_scales.rs 136-138
tt_to_utc_approx(tt_jd) == JdPlus(tt_jd, 0 - (CURRENT_LEAP_SECONDS + TT_MINUS_TAI))

\* One call of each conversion on the instant in input; tt_to_utc_approx is
\* given the value utc_to_tt returned.
NoConversions ==
    [utc_to_tai |-> Pending, utc_to_tt |-> Pending, utc_to_ut1 |-> Pending,
     tt_to_utc_approx |-> Pending]

UtcToTai ==
    /\ output.utc_to_tai = Pending
    /\ output' = [output EXCEPT !.utc_to_tai = utc_to_tai(input)]
    /\ UNCHANGED <<input, cacheVars, validateVars, tleVars, orbitVars, onceVars>>

UtcToTt ==
    /\ output.utc_to_tt = Pending
    /\ output' = [output EXCEPT !.utc_to_tt = utc_to_tt(input)]
    /\ UNCHANGED <<input, cacheVars, validateVars, tleVars, orbitVars, onceVars>>

UtcToUt1 ==
    /\ output.utc_to_ut1 = Pending
    /\ output' = [output EXCEPT !.utc_to_ut1 = utc_to_ut1(input)]
    /\ UNCHANGED <<input, cacheVars, validateVars, tleVars, orbitVars, onceVars>>

TtToUtcApprox ==
    /\ output.utc_to_tt # Pending
    /\ output.tt_to_utc_approx = Pending
    /\ output' = [output EXCEPT !.tt_to_utc_approx = tt_to_utc_approx(output.utc_to_tt)]
    /\ UNCHANGED <<input, cacheVars, validateVars, tleVars, orbitVars, onceVars>>

\* The instants of ValidateInit and the last minute or so of a day, from which
\* TAI and TT fall on the next day.
ScaleSecs == EpochSecs \cup {86330, 86331, 86362, 86363}

TimeScaleInit ==
    /\ CacheIdle
    /\ ValidateIdle
    /\ TleIdle
    /\ OrbitIdle
    /\ OnceIdle
    /\ input \in {DateTime(d, s) : d \in EpochDays, s \in ScaleSecs}
    /\ output = NoConversions

TimeScaleNext == UtcToTai \/ UtcToTt \/ UtcToUt1 \/ TtToUtcApprox

TimeScaleSpec == TimeScaleInit /\ [][TimeScaleNext]_vars


(***************************************************************************)
(* Strings.  A &str is a sequence of chars; a char is written as a string  *)
(* of one character, and EAcute stands for U+00E9, which UTF-8 encodes in  *)
(* two bytes.  str::len and the range index s[a..b] count bytes.           *)
(***************************************************************************)
EAcute == "<U+00E9>"

NonAscii == {EAcute}

\* char::len_utf8
Utf8Width(c) == IF c \in NonAscii THEN 2 ELSE 1

\* Byte offset of the end of each prefix of s.
ByteOffsets(s) ==
    [k \in 0..Len(s) |-> k + Cardinality({i \in 1..k : Utf8Width(s[i]) = 2})]

\* str::len
StrLen(s) == ByteOffsets(s)[Len(s)]

\* str::is_char_boundary
IsCharBoundary(s, i) ==
    LET off == ByteOffsets(s) IN \E k \in 0..Len(s) : off[k] = i

\* &s[a..b] panics unless a and b are char boundaries with a <= b <= len.
CanSlice(s, a, b) == a <= b /\ IsCharBoundary(s, a) /\ IsCharBoundary(s, b)

\* &s[a..b]
Slice(s, a, b) ==
    LET off == ByteOffsets(s)
        ia  == CHOOSE k \in 0..Len(s) : off[k] = a
        ib  == CHOOSE k \in 0..Len(s) : off[k] = b
    IN  SubSeq(s, ia + 1, ib)

\* str::starts_with(char)
StartsWith(s, c) == Len(s) > 0 /\ s[1] = c

\* char::is_whitespace
WhiteSpace == {" ", "\t", "\n", "\r"}

RECURSIVE TrimStart(_)
TrimStart(s) ==
    IF s # << >> /\ Head(s) \in WhiteSpace THEN TrimStart(Tail(s)) ELSE s

RECURSIVE TrimEnd(_)
TrimEnd(s) ==
    IF s # << >> /\ s[Len(s)] \in WhiteSpace THEN TrimEnd(SubSeq(s, 1, Len(s) - 1)) ELSE s

\* str::trim
Trim(s) == TrimEnd(TrimStart(s))

DigitChars == {"0", "1", "2", "3", "4", "5", "6", "7", "8", "9"}

DigitVal(c) ==
    CASE c = "0" -> 0 [] c = "1" -> 1 [] c = "2" -> 2 [] c = "3" -> 3 [] c = "4" -> 4
      [] c = "5" -> 5 [] c = "6" -> 6 [] c = "7" -> 7 [] c = "8" -> 8 [] c = "9" -> 9

AllDigits(s) == \A i \in 1..Len(s) : s[i] \in DigitChars

\* Value of a sequence of digit chars, saturated at cap.
RECURSIVE DigitsValue(_, _)
DigitsValue(s, cap) ==
    IF s = << >> THEN 0
    ELSE LET hi == DigitsValue(SubSeq(s, 1, Len(s) - 1), cap)
             v  == IF hi >= cap THEN cap ELSE hi * 10 + DigitVal(s[Len(s)])
         IN  IF v >= cap THEN cap ELSE v

ParseErr == [ok |-> FALSE]

Parsed(v) == [ok |-> TRUE, val |-> v]

\* Largest magnitude the integer fields can hold: they are at most 5 bytes wide.
IntCap == 1000000

\* <u32 as FromStr>::from_str: an optional '+', then one or more digits.
ParseU32(s) ==
    LET body == IF s # << >> /\ Head(s) = "+" THEN Tail(s) ELSE s
    IN  IF body = << >> \/ ~ AllDigits(body) THEN ParseErr
        ELSE Parsed(DigitsValue(body, IntCap))

\* <i32 as FromStr>::from_str: an optional '+' or '-', then one or more digits.
ParseI32(s) ==
    LET signed == s # << >> /\ Head(s) \in {"+", "-"}
        body   == IF signed THEN Tail(s) ELSE s
        mag    == DigitsValue(body, IntCap)
    IN  IF body = << >> \/ ~ AllDigits(body) THEN ParseErr
        ELSE Parsed(IF signed /\ Head(s) = "-" THEN 0 - mag ELSE mag)

(***************************************************************************)
(* f64.  A parsed number is kept as the decimal it was written as: its     *)
(* sign, the digits of its integer part (no leading zero) and the digits   *)
(* of its fraction (no trailing zero); kind is "fin", "inf" or "nan".      *)
(* Binary rounding of the last place is not modelled.                      *)
(***************************************************************************)
Float(kind, neg, int, frac) == [kind |-> kind, neg |-> neg, int |-> int, frac |-> frac]

NaN == Float("nan", FALSE, << >>, << >>)

Infinity(neg) == Float("inf", neg, << >>, << >>)

RECURSIVE StripLeadingZeros(_)
StripLeadingZeros(ds) ==
    IF ds # << >> /\ Head(ds) = 0 THEN StripLeadingZeros(Tail(ds)) ELSE ds

RECURSIVE StripTrailingZeros(_)
StripTrailingZeros(ds) ==
    IF ds # << >> /\ ds[Len(ds)] = 0
    THEN StripTrailingZeros(SubSeq(ds, 1, Len(ds) - 1)) ELSE ds

Zeros(n) == [i \in 1..n |-> 0]

\* Decimal exponents beyond these are all alike: the value is infinite or zero.
ExpCap == 400

\* f64::MAX has 309 integer digits: a longer integer part is infinite.
MaxIntDigits == 309

\* The digits int.frac times 10^e, as a finite value or an infinity.
Scaled(neg, int, frac, e) ==
    LET all   == int \o frac
        point == Len(int) + e              \* digits of all before the point
        i2 == IF point <= 0 THEN << >>
              ELSE IF point >= Len(all) THEN all \o Zeros(point - Len(all))
              ELSE SubSeq(all, 1, point)
        f2 == IF point <= 0 THEN Zeros(0 - point) \o all
              ELSE IF point >= Len(all) THEN << >>
              ELSE SubSeq(all, point + 1, Len(all))
        i3 == StripLeadingZeros(i2)
        f3 == StripTrailingZeros(f2)
    IN  IF StripLeadingZeros(all) = << >> THEN Float("fin", neg, << >>, << >>)
        ELSE IF Len(i3) > MaxIntDigits THEN Infinity(neg)
        ELSE Float("fin", neg, i3, f3)

ToLower(c) ==
    CASE c = "I" -> "i" [] c = "N" -> "n" [] c = "F" -> "f" [] c = "T" -> "t"
      [] c = "Y" -> "y" [] c = "A" -> "a" [] c = "E" -> "e" [] OTHER -> c

Lowered(s) == [i \in 1..Len(s) |-> ToLower(s[i])]

\* Length of the longest prefix of s made of digits.
RECURSIVE DigitRun(_)
DigitRun(s) ==
    IF s # << >> /\ Head(s) \in DigitChars THEN 1 + DigitRun(Tail(s)) ELSE 0

DigitSeq(s) == [i \in 1..Len(s) |-> DigitVal(s[i])]

\* <f64 as FromStr>::from_str: [sign] ("inf" | "infinity" | "nan" |
\* digits ["." digits] [("e" | "E") [sign] digits]) with a digit before or after
\* the point, a digit in the exponent, and nothing before or after.  The
\* operators below read the number left to right, each one taking what the ones
\* before it have read and the text that is left.
\* The digits of the exponent.
ParseExponentDigits(neg, int, frac, eneg, digits) ==
    IF digits = << >> \/ ~ AllDigits(digits) THEN ParseErr
    ELSE Parsed(Scaled(neg, DigitSeq(int), DigitSeq(frac),
                       IF eneg THEN 0 - DigitsValue(digits, ExpCap)
                       ELSE DigitsValue(digits, ExpCap)))

\* The sign of the exponent.
ParseExponentSign(neg, int, frac, rest) ==
    IF rest # << >> /\ Head(rest) \in {"+", "-"}
    THEN ParseExponentDigits(neg, int, frac, Head(rest) = "-", Tail(rest))
    ELSE ParseExponentDigits(neg, int, frac, FALSE, rest)

\* The end of the number or its exponent.
ParseExponent(neg, int, frac, rest) ==
    IF Len(int) + Len(frac) = 0 THEN ParseErr
    ELSE IF rest = << >> THEN Parsed(Scaled(neg, DigitSeq(int), DigitSeq(frac), 0))
    ELSE IF Head(rest) \notin {"e", "E"} THEN ParseErr
    ELSE ParseExponentSign(neg, int, frac, Tail(rest))

\* The digits after the point, nf of them.
ParseFractionDigits(neg, int, rest, nf) ==
    ParseExponent(neg, int, SubSeq(rest, 1, nf), SubSeq(rest, nf + 1, Len(rest)))

\* The point.
ParseFraction(neg, int, rest) ==
    IF rest # << >> /\ Head(rest) = "."
    THEN ParseFractionDigits(neg, int, Tail(rest), DigitRun(Tail(rest)))
    ELSE ParseExponent(neg, int, << >>, rest)

\* The digits before the point, ni of them.
ParseIntegerDigits(neg, body, ni) ==
    ParseFraction(neg, SubSeq(body, 1, ni), SubSeq(body, ni + 1, Len(body)))

\* What follows the sign.
ParseUnsigned(neg, body) ==
    IF body = << >> THEN ParseErr
    ELSE IF Lowered(body) = <<"n", "a", "n">> THEN Parsed(NaN)
    ELSE IF Lowered(body) = <<"i", "n", "f">>
            \/ Lowered(body) = <<"i", "n", "f", "i", "n", "i", "t", "y">>
         THEN Parsed(Infinity(neg))
    ELSE ParseIntegerDigits(neg, body, DigitRun(body))

ParseF64(s) ==
    IF s # << >> /\ Head(s) \in {"+", "-"}
    THEN ParseUnsigned(Head(s) = "-", Tail(s))
    ELSE ParseUnsigned(FALSE, s)

(***************************************************************************)
(* tle_epoch_to_datetime  (tle.rs 247-262)                                 *)
(***************************************************************************)
InvalidCoordinates(reason) ==
    [tag |-> "Err", variant |-> "InvalidCoordinates", reason |-> reason]

\* A panic: the call unwinds instead of returning.
Panic(at) == [tag |-> "Panic", at |-> at]

\* The years chrono's dates span.
ChronoMinYear == -262143

ChronoMaxYear == 262142

ChronoMinDays == DaysFromCivil(ChronoMinYear, 1, 1)

ChronoMaxDays == DaysFromCivil(ChronoMaxYear, 12, 31)

\* Integers of up to this many digits are computed with exactly; a day count of
\* more digits is beyond every date chrono can hold.
ExactDigits == 9

RECURSIVE NatOfDigits(_)
NatOfDigits(ds) ==
    IF ds = << >> THEN 0
    ELSE NatOfDigits(SubSeq(ds, 1, Len(ds) - 1)) * 10 + ds[Len(ds)]

RECURSIVE DigitsOfNat(_)
DigitsOfNat(n) == IF n = 0 THEN << >> ELSE Append(DigitsOfNat(n \div 10), n % 10)

\* day_of_year.floor() as i64, for a value whose integer part is exact:
\* as saturates, NaN becomes 0.
FloorI64(v) ==
    IF v.kind = "nan" THEN 0
    ELSE LET ip == NatOfDigits(v.int)
         IN  IF ~ v.neg THEN ip
             ELSE IF v.frac = << >> THEN 0 - ip
             ELSE 0 - (ip + 1)

\* The digits of day_of_year - day_of_year.floor(), a value in [0, 1).
FractionDigits(v) ==
    IF v.kind # "fin" \/ v.frac = << >> THEN << >>
    ELSE IF ~ v.neg THEN v.frac
    ELSE [i \in 1..Len(v.frac) |->
            IF i = Len(v.frac) THEN 10 - v.frac[i] ELSE 9 - v.frac[i]]

\* The digits of ds * m + carry, ds being the digits of a natural number.
RECURSIVE MulDigits(_, _, _)
MulDigits(ds, m, carry) ==
    IF ds = << >> THEN DigitsOfNat(carry)
    ELSE LET p == ds[Len(ds)] * m + carry
         IN  Append(MulDigits(SubSeq(ds, 1, Len(ds) - 1), m, p \div 10), p % 10)

\* The seconds of the fraction 0.fd of a day cut off instead of rounded.
TruncatedSeconds(fd) ==
    LET prod == MulDigits(fd, SecondsPerDay, 0)
    IN  IF Len(prod) > Len(fd) THEN NatOfDigits(SubSeq(prod, 1, Len(prod) - Len(fd)))
        ELSE 0

\* (fractional_day * 86400.0).round() as i64 for the fraction 0.fd: the product
\* fd * 86400 cut at the point, rounded half up.
RoundedSeconds(fd) ==
    LET prod  == MulDigits(fd, SecondsPerDay, 0)
        k     == Len(fd)
        whole == IF Len(prod) > k THEN NatOfDigits(SubSeq(prod, 1, Len(prod) - k)) ELSE 0
        first == IF k = 0 THEN 0
                 ELSE IF Len(prod) >= k THEN prod[Len(prod) - k + 1] ELSE 0
    IN  IF first >= 5 THEN whole + 1 ELSE whole

\* jan1 + Duration::days(whole_days) + Duration::seconds(seconds)
AddDaysSeconds(dt, days, seconds) ==
    LET total == dt.secs + seconds
    IN  DateTime(dt.days + days + total \div SecondsPerDay, total % SecondsPerDay)

\* tle.rs 247-262.  Duration::days and the addition of a Duration to a date panic
\* when the result is out of chrono's range; so does, in a debug build, the
\* subtraction at line 255 when floor() saturates at i64::MIN, and in a release
\* build the Duration::days that follows it.
tle_epoch_to_datetime(year, day_of_year) ==
    IF year < ChronoMinYear \/ year > ChronoMaxYear
    THEN InvalidCoordinates("Invalid year")
    ELSE IF day_of_year.kind = "inf" \/ Len(day_of_year.int) > ExactDigits
    THEN Panic("Duration::days / DateTime + Duration")
    ELSE LET jan1       == DateTime(DaysFromCivil(year, 1, 1), 0)
             whole_days == FloorI64(day_of_year) - 1
             seconds    == RoundedSeconds(FractionDigits(day_of_year))
             epoch      == AddDaysSeconds(jan1, whole_days, seconds)
         IN  IF epoch.days < ChronoMinDays \/ epoch.days > ChronoMaxDays
             THEN Panic("DateTime + Duration")
             ELSE Ok(epoch)

(***************************************************************************)
(* TleElements::from_lines  (tle.rs 76-181)                                *)
(***************************************************************************)
\* .parse().map_err(..)
Reading(parsed, reason) ==
    IF parsed.ok THEN Ok(parsed.val) ELSE InvalidCoordinates(reason)

\* line[a..b].trim().parse::<u32>()
FieldU32(line, a, b, reason) ==
    IF ~ CanSlice(line, a, b) THEN Panic("str index")
    ELSE Reading(ParseU32(Trim(Slice(line, a, b))), reason)

\* line[a..b].parse::<i32>()
FieldI32(line, a, b, reason) ==
    IF ~ CanSlice(line, a, b) THEN Panic("str index")
    ELSE Reading(ParseI32(Slice(line, a, b)), reason)

\* line[a..b].parse::<f64>(), after trim() where the code trims
FieldF64(line, a, b, trimmed, reason) ==
    IF ~ CanSlice(line, a, b) THEN Panic("str index")
    ELSE Reading(ParseF64(IF trimmed THEN Trim(Slice(line, a, b))
                          ELSE Slice(line, a, b)), reason)

\* tle.rs 104-108 with the pivot year off by a few.
EpochYearPivot50(yy) == IF yy < 50 THEN 2000 + yy ELSE 1900 + yy

\* tle.rs 104-108
EpochYear(yy) == IF yy < 57 THEN 2000 + yy ELSE 1900 + yy

\* tle.rs 137-144: format!("0.{}", &line2[26..33]).parse::<f64>()
FieldEccentricity(line, a, b, reason) ==
    IF ~ CanSlice(line, a, b) THEN Panic("str index")
    ELSE Reading(ParseF64(<<"0", ".">> \o Slice(line, a, b)), reason)

\* tle.rs 77: the lines are long enough.
LengthOk(l1, l2) == ~ (StrLen(l1) < 69 \/ StrLen(l2) < 69)

\* tle.rs 84: the line numbers are right.
LineNumbersOk(l1, l2) == ~ (~ StartsWith(l1, "1") \/ ~ StartsWith(l2, "2"))

\* The outcome of from_lines and, as history, the number of fields parsed
\* before it ended and the four-digit epoch year it computed.
Outcome(result, nparsed, year) ==
    [tag |-> result.tag, result |-> result, parsed |-> nparsed, epoch_year |-> year]

\* from_lines reads the fields in order, each ? returning the first failure.
\* Below, in reverse order, is what from_lines does after each field: r is the
\* outcome of reading it, e the fields read before it.
\* tle.rs 164-180
AfterMeanMotion(e, year, r) ==
    IF r.tag # "Ok" THEN Outcome(r, 8, year)
    ELSE Outcome(Ok(e @@ [mean_motion |-> r.value]), 9, year)

\* tle.rs 155-169
AfterMeanAnomaly(l2, e, year, r) ==
    IF r.tag # "Ok" THEN Outcome(r, 7, year)
    ELSE AfterMeanMotion(e @@ [mean_anomaly |-> r.value], year,
                         FieldF64(l2, 52, 63, TRUE, "Invalid mean motion"))

\* tle.rs 146-162
AfterArgPerigee(l2, e, year, r) ==
    IF r.tag # "Ok" THEN Outcome(r, 6, year)
    ELSE AfterMeanAnomaly(l2, e @@ [arg_perigee |-> r.value], year,
                          FieldF64(l2, 43, 51, TRUE, "Invalid mean anomaly"))

\* tle.rs 137-153
AfterEccentricity(l2, e, year, r) ==
    IF r.tag # "Ok" THEN Outcome(r, 5, year)
    ELSE AfterArgPerigee(l2, e @@ [eccentricity |-> r.value], year,
                         FieldF64(l2, 34, 42, TRUE, "Invalid argument of perigee"))

\* tle.rs 128-144
AfterRaan(l2, e, year, r) ==
    IF r.tag # "Ok" THEN Outcome(r, 4, year)
    ELSE AfterEccentricity(l2, e @@ [raan |-> r.value], year,
                           FieldEccentricity(l2, 26, 33, "Invalid eccentricity"))

\* The RAAN read from one column too far to the left.
AfterInclinationWide(l2, e, year, r) ==
    IF r.tag # "Ok" THEN Outcome(r, 3, year)
    ELSE AfterRaan(l2, e @@ [inclination |-> r.value], year,
                   FieldF64(l2, 16, 25, TRUE, "Invalid RAAN"))

\* tle.rs 119-135
AfterInclination(l2, e, year, r) ==
    IF r.tag # "Ok" THEN Outcome(r, 3, year)
    ELSE AfterRaan(l2, e @@ [inclination |-> r.value], year,
                   FieldF64(l2, 17, 25, TRUE, "Invalid RAAN"))

\* tle.rs 116-126
AfterEpoch(l2, e, year, r) ==
    IF r.tag # "Ok" THEN Outcome(r, 3, year)
    ELSE AfterInclination(l2, e @@ [epoch |-> r.value], year,
                          FieldF64(l2, 8, 16, TRUE, "Invalid inclination"))

\* tle.rs 110-116
AfterEpochDay(l2, e, year, r) ==
    IF r.tag # "Ok" THEN Outcome(r, 2, year)
    ELSE AfterEpoch(l2, e, year, tle_epoch_to_datetime(year, r.value))

\* tle.rs 99-114
AfterEpochYear(l1, l2, e, r) ==
    IF r.tag # "Ok" THEN Outcome(r, 1, 0)
    ELSE AfterEpochDay(l2, e, EpochYear(r.value),
                       FieldF64(l1, 20, 32, FALSE, "Invalid epoch day"))

\* tle.rs 91-103
AfterCatalogNumber(l1, l2, r) ==
    IF r.tag # "Ok" THEN Outcome(r, 0, 0)
    ELSE AfterEpochYear(l1, l2, [catalog_number |-> r.value],
                        FieldI32(l1, 18, 20, "Invalid epoch year"))

from_lines(l1, l2) ==
    IF ~ LengthOk(l1, l2)
    THEN Outcome(InvalidCoordinates("TLE lines must be 69 characters"), 0, 0)
    ELSE IF ~ LineNumbersOk(l1, l2)
    THEN Outcome(InvalidCoordinates("Invalid TLE line numbers"), 0, 0)
    ELSE AfterCatalogNumber(l1, l2, FieldU32(l1, 2, 7, "Invalid catalog number"))

(***************************************************************************)
(* The lines tried: the ISS element set of the tests (tle.rs 271-272) with *)
(* one or two fields replaced, cut short, extended, or with a char         *)
(* replaced by a non-ASCII one.                                            *)
(***************************************************************************)
IssLine1 ==
    <<"1", " ", "2", "5", "5", "4", "4", "U", " ", "9", "8", "0", "6", "7",
      "A", " ", " ", " ", "2", "0", "2", "0", "6", ".", "1", "8", "5", "3",
      "9", "6", "0", "0", " ", " ", ".", "0", "0", "0", "0", "1", "4", "0",
      "6", " ", " ", "0", "0", "0", "0", "0", "-", "0", " ", " ", "3", "3",
      "5", "1", "8", "-", "4", " ", "0", " ", " ", "9", "9", "9", "2">>

IssLine2 ==
    <<"2", " ", "2", "5", "5", "4", "4", " ", " ", "5", "1", ".", "6", "4",
      "6", "1", " ", "3", "3", "9", ".", "8", "0", "1", "4", " ", "0", "0",
      "0", "1", "4", "7", "3", " ", " ", "9", "4", ".", "8", "3", "4", "0",
      " ", "2", "6", "5", ".", "2", "8", "6", "4", " ", "1", "5", ".", "4",
      "9", "3", "0", "9", "4", "3", "2", "2", "3", "6", "0", "0", "8">>

\* line with the chars from char position at (0-based) on replaced by field.
Replace(line, at, field) ==
    SubSeq(line, 1, at) \o field \o SubSeq(line, at + Len(field) + 1, Len(line))

CatalogFields ==
    { <<"2", "5", "5", "4", "4">>,
      <<" ", " ", " ", " ", "7">>,
      <<" ", " ", "7", " ", " ">>,
      <<"+", "1", "2", "3", "4">>,
      <<"-", "1", "2", "3", "4">>,
      <<" ", " ", " ", " ", " ">>,
      <<"2", "5", "5", "4", EAcute>> }

YearFields ==
    { <<"2", "0">>,
      <<"5", "6">>,
      <<"5", "7">>,
      <<"9", "9">>,
      <<"0", "0">>,
      <<" ", "5">>,
      <<"5", " ">>,
      <<"+", "5">>,
      <<"-", "5">>,
      <<"-", "9">>,
      <<"x", "1">> }

DayFields ==
    { <<"2", "0", "6", ".", "1", "8", "5", "3", "9", "6", "0", "0">>,
      <<"0", "0", "1", ".", "0", "0", "0", "0", "0", "0", "0", "0">>,
      <<" ", " ", "1", ".", "0", "0", "0", "0", "0", "0", "0", "0">>,
      <<"1", ".", "0", " ", " ", " ", " ", " ", " ", " ", " ", " ">>,
      <<"0", "0", "0", ".", "0", "0", "0", "0", "0", "0", "0", "0">>,
      <<"3", "6", "6", ".", "9", "9", "9", "9", "9", "9", "9", "9">>,
      <<"4", "0", "0", ".", "5", "0", "0", "0", "0", "0", "0", "0">>,
      <<"-", "3", "0", "0", ".", "2", "5", "0", "0", "0", "0", "0">>,
      <<"0", "9", "9", "9", "9", "9", "9", "9", "9", "9", "9", "9">>,
      <<"9", "9", "9", "9", "9", "9", "9", "9", "9", "9", "9", "9">>,
      <<"1", "e", "9", "9", "9", "9", "9", "9", "9", "9", "9", "9">>,
      <<"-", "1", "e", "9", "9", "9", "9", "9", "9", "9", "9", "9">>,
      <<"1", ".", "5", "e", "0", "0", "0", "0", "0", "0", "0", "2">>,
      <<"2", "0", "6", ".", "1", "8", "5", "3", "9", "6", "0", "x">> }

AngleFields ==
    { <<" ", "5", "1", ".", "6", "4", "6", "1">>,
      <<"5", "1", ".", "6", "4", "6", "1", " ">>,
      <<" ", " ", " ", "0", ".", "0", " ", " ">>,
      <<"-", "5", "1", ".", "6", "4", "6", "1">>,
      <<" ", " ", " ", " ", " ", "i", "n", "f">>,
      <<" ", " ", " ", " ", " ", "N", "a", "N">>,
      <<"1", "e", "9", "9", "9", "9", "9", "9">>,
      <<" ", " ", " ", " ", " ", " ", " ", " ">>,
      <<" ", "5", "x", ".", "0", "0", "0", "0">> }

EccentricityFields ==
    { <<"0", "0", "0", "1", "4", "7", "3">>,
      <<"9", "9", "9", "9", "9", "9", "9">>,
      <<"0", "0", "0", "0", "0", "0", "0">>,
      <<"1", "2", "3", "4", "e", "9", "9">>,
      <<"0", "0", "0", "1", "4", "e", "1">>,
      <<" ", "0", "0", "1", "4", "7", "3">>,
      <<"-", "0", "0", "1", "4", "7", "3">>,
      <<"0", "0", "0", "1", "4", "7", " ">> }

MeanMotionFields ==
    { <<"1", "5", ".", "4", "9", "3", "0", "9", "4", "3", "2">>,
      <<" ", "1", ".", "0", " ", " ", " ", " ", " ", " ", " ">>,
      <<"0", "0", ".", "0", "0", "0", "0", "0", "0", "0", "0">>,
      <<"-", "1", ".", "0", "0", "0", "0", "0", "0", "0", "0">>,
      <<" ", " ", " ", "i", "n", "f", "i", "n", "i", "t", "y">>,
      <<"1", "5", ".", "4", "9", "3", "0", "9", "4", "3", "x">> }


Line1Inputs ==
    {Replace(Replace(IssLine1, 18, yy), 20, day) : yy \in YearFields, day \in DayFields}
        \cup {Replace(IssLine1, 2, cat) : cat \in CatalogFields}
        \cup { Replace(IssLine1, 0, <<"2">>),
               Replace(IssLine1, 0, <<" ">>),
               SubSeq(IssLine1, 1, 68),
               SubSeq(IssLine1, 1, 67) \o <<EAcute>>,
               IssLine1 \o <<"X">>,
               << >>,
               Replace(IssLine1, 0, <<EAcute>>),
               Replace(IssLine1, 1, <<EAcute>>),
               Replace(IssLine1, 19, <<EAcute>>),
               Replace(IssLine1, 40, <<EAcute>>) }

Line2Inputs ==
    {Replace(IssLine2, 8, f) : f \in AngleFields}
        \cup {Replace(IssLine2, 17, f) : f \in AngleFields}
        \cup {Replace(IssLine2, 26, f) : f \in EccentricityFields}
        \cup {Replace(IssLine2, 34, f) : f \in AngleFields}
        \cup {Replace(IssLine2, 43, f) : f \in AngleFields}
        \cup {Replace(IssLine2, 52, f) : f \in MeanMotionFields}
        \cup { Replace(IssLine2, 0, <<"1">>),
               SubSeq(IssLine2, 1, 68),
               SubSeq(IssLine2, 1, 67) \o <<EAcute>>,
               IssLine2 \o <<"X">>,
               Replace(IssLine2, 30, <<EAcute>>),
               Replace(IssLine2, 65, <<EAcute>>) }

\* A few lines that fail in different places, to be paired with every line of
\* the other kind.
Line1Probes ==
    { IssLine1, SubSeq(IssLine1, 1, 68), Replace(IssLine1, 0, <<"2">>),
      Replace(IssLine1, 18, <<"x", "1">>), SubSeq(IssLine1, 1, 67) \o <<EAcute>> }

Line2Probes ==
    { IssLine2, SubSeq(IssLine2, 1, 68), Replace(IssLine2, 0, <<"1">>),
      SubSeq(IssLine2, 1, 67) \o <<EAcute>> }

TleInputs ==
    (Line1Inputs \X Line2Probes) \cup (Line1Probes \X Line2Inputs)

TleInit ==
    /\ CacheIdle
    /\ ValidateIdle
    /\ \E in \in TleInputs : line1 = in[1] /\ line2 = in[2]
    /\ tle = Pending
    /\ tle_target = [days |-> 0, secs |-> 0]
    /\ tle_position = Pending
    /\ OrbitIdle
    /\ OnceIdle
    /\ FnIdle

FromLines ==
    /\ tle = Pending
    /\ tle' = from_lines(line1, line2)
    /\ UNCHANGED <<line1, line2, tle_target, tle_position, cacheVars, validateVars,
                   orbitVars, onceVars, fnVars>>

TleNext == FromLines

TleSpec == TleInit /\ [][TleNext]_vars

(***************************************************************************)
(* orbital.rs: KeplerianElements.                                          *)
(*                                                                         *)
(* The f64 arithmetic is modelled exactly, at the values where it can be:  *)
(* angles are whole quarter turns, whose sine and cosine are -1, 0 or 1;   *)
(* the eccentricity is a whole number of halves, 0 or 1/2; lengths are     *)
(* whole metres; a velocity is a whole number of halves of sqrt(mu / p).   *)
(* Rounding in the last place of an f64 is not modelled.                   *)
(***************************************************************************)
\* Sine and cosine of q quarter turns.
Sin(q) == CASE q % 4 = 0 -> 0 [] q % 4 = 1 -> 1 [] q % 4 = 2 -> 0 [] q % 4 = 3 -> 0 - 1

Cos(q) == Sin(q + 1)

\* constants.rs 43, the f64 written out
MU_EARTH == "3.986004418e14"

\* orbital.rs 34-55; eccentricity counts halves
KeplerianElements(a, e2, i, raan, omega, nu, mu) ==
    [semi_major_axis |-> a, eccentricity |-> e2, inclination |-> i, raan |-> raan,
     argument_of_periapsis |-> omega, true_anomaly |-> nu, mu |-> mu]

\* orbital.rs 57-69
Default == KeplerianElements(7000000, 0, 0, 0, 0, 0, MU_EARTH)

\* orbital.rs 137-159 with the coefficients of x copied to y
PerifocalToIcrsCopied(omega, i, raan, v) ==
    << (Cos(raan) * Cos(omega) - Sin(raan) * Sin(omega) * Cos(i)) * v[1]
           + (0 - Cos(raan) * Sin(omega) - Sin(raan) * Cos(omega) * Cos(i)) * v[2]
           + (Sin(raan) * Sin(i)) * v[3],
       (Cos(raan) * Cos(omega) - Sin(raan) * Sin(omega) * Cos(i)) * v[1]
           + (0 - Cos(raan) * Sin(omega) - Sin(raan) * Cos(omega) * Cos(i)) * v[2]
           + (Sin(raan) * Sin(i)) * v[3],
       (Sin(omega) * Sin(i)) * v[1]
           + (Cos(omega) * Sin(i)) * v[2]
           + Cos(i) * v[3] >>

\* orbital.rs 137-147 and again 149-159: the 3-1-3 rotation of a vector of the
\* orbital plane to ICRS
PerifocalToIcrs(omega, i, raan, v) ==
    << (Cos(raan) * Cos(omega) - Sin(raan) * Sin(omega) * Cos(i)) * v[1]
           + (0 - Cos(raan) * Sin(omega) - Sin(raan) * Cos(omega) * Cos(i)) * v[2]
           + (Sin(raan) * Sin(i)) * v[3],
       (Sin(raan) * Cos(omega) + Cos(raan) * Sin(omega) * Cos(i)) * v[1]
           + (0 - Sin(raan) * Sin(omega) + Cos(raan) * Cos(omega) * Cos(i)) * v[2]
           + (0 - Cos(raan) * Sin(i)) * v[3],
       (Sin(omega) * Sin(i)) * v[1]
           + (Cos(omega) * Sin(i)) * v[2]
           + Cos(i) * v[3] >>

\* orbital.rs 119: a * (1 - e * e) / (1 + e * cos(nu)), with e = e2 / 2
OrbitalRadius(a, e2, nu) == (a * (4 - e2 * e2)) \div (2 * (2 + e2 * Cos(nu)))

\* orbital.rs 126: a * (1 - e * e)
SemiLatusRectum(a, e2) == (a * (4 - e2 * e2)) \div 4

\* orbital.rs 108-171.  The velocity is halves[n] / 2 * sqrt(mu / p).
to_state_vectors(self) ==
    LET r == OrbitalRadius(self.semi_major_axis, self.eccentricity, self.true_anomaly)
    IN  [position |->
             PerifocalToIcrs(self.argument_of_periapsis, self.inclination, self.raan,
                             << r * Cos(self.true_anomaly),
                                r * Sin(self.true_anomaly),
                                0 >>),
         velocity |->
             [mu |-> self.mu,
              p  |-> SemiLatusRectum(self.semi_major_axis, self.eccentricity),
              halves |->
                  PerifocalToIcrs(self.argument_of_periapsis, self.inclination, self.raan,
                                  << 0 - 2 * Sin(self.true_anomaly),
                                     self.eccentricity + 2 * Cos(self.true_anomaly),
                                     0 >>)]]

(***************************************************************************)
(* KeplerianElements::propagate_to  (orbital.rs 180-213)                   *)
(*                                                                         *)
(* Time is counted in quarters of a day, and the orbit propagated has a    *)
(* period of one day, so that the mean anomaly moves by a quarter turn in  *)
(* each: that is the orbit of semi-major axis SyncAxis about the Earth.    *)
(***************************************************************************)
SecondsPerQuarterDay == 21600

\* cbrt(MU_EARTH / n^2) for n = 2 pi / 86400 s, to the metre
SyncAxis == 42241096

\* constants.rs 84: time.timestamp() / 86400 + 2440587.5, in quarters of a day
utc_to_julian_date(time) ==
    CASE time.secs % SecondsPerQuarterDay = 0 ->
        time.days * 4 + time.secs \div SecondsPerQuarterDay + 9762350

(***************************************************************************)
(* earth_rotation_angle  (constants.rs 96-99).  The Julian Date is given   *)
(* in quarters of a day, as utc_to_julian_date returns it here.  The       *)
(* argument 0.7790572732640 + 1.0027378119113546 * d is computed exactly,  *)
(* in units of 10^-20 turn: a sign and a magnitude written in base 10^4,   *)
(* lowest limb first.                                                      *)
(***************************************************************************)
\* constants.rs 10: J2000_JD = 2451545.0, in quarters of a day
J2000_JD == 9806180

LimbBase == 10000

\* The limbs below one turn: 10^20 = LimbBase^5.
TurnLimbs == 5

\* constants.rs 98: 0.7790572732640 * 10^20
EraOffset == <<0, 0, 3264, 5727, 7790, 0, 0>>

\* constants.rs 98: 1.0027378119113546 * 10^20 / 4, the turns of a quarter day
EraRate == <<5000, 8386, 2977, 8445, 2506, 0, 0>>

RECURSIVE MulLimbs(_, _, _)
MulLimbs(xs, k, carry) ==
    IF xs = << >> THEN << >>
    ELSE <<(Head(xs) * k + carry) % LimbBase>>
             \o MulLimbs(Tail(xs), k, (Head(xs) * k + carry) \div LimbBase)

RECURSIVE AddLimbs(_, _, _)
AddLimbs(xs, ys, carry) ==
    IF xs = << >> THEN << >>
    ELSE <<(Head(xs) + Head(ys) + carry) % LimbBase>>
             \o AddLimbs(Tail(xs), Tail(ys), (Head(xs) + Head(ys) + carry) \div LimbBase)

\* xs - ys for xs >= ys
RECURSIVE SubLimbs(_, _, _)
SubLimbs(xs, ys, borrow) ==
    IF xs = << >> THEN << >>
    ELSE <<(Head(xs) - Head(ys) - borrow) % LimbBase>>
             \o SubLimbs(Tail(xs), Tail(ys),
                         IF Head(xs) - Head(ys) - borrow < 0 THEN 1 ELSE 0)

\* xs < ys
RECURSIVE LessLimbs(_, _)
LessLimbs(xs, ys) ==
    /\ xs # << >>
    /\ \/ LessLimbs(Tail(xs), Tail(ys))
       \/ Tail(xs) = Tail(ys) /\ Head(xs) < Head(ys)

ZeroLimbs(xs) == \A n \in DOMAIN xs : xs[n] = 0

\* The limbs of a natural number.
RECURSIVE LimbsOf(_)
LimbsOf(n) ==
    IF n < LimbBase THEN <<n>> ELSE <<n % LimbBase>> \o LimbsOf(n \div LimbBase)

\* xs with zero limbs added up to n limbs
PadLimbs(xs, n) == IF Len(xs) < n THEN xs \o Zeros(n - Len(xs)) ELSE xs

\* xs * ys
RECURSIVE TimesLimbs(_, _)
TimesLimbs(xs, ys) ==
    IF ys = << >> THEN Zeros(Len(xs) + 1)
    ELSE AddLimbs(PadLimbs(MulLimbs(xs \o <<0>>, Head(ys), 0), Len(xs) + Len(ys) + 1),
                  PadLimbs(<<0>> \o TimesLimbs(xs, Tail(ys)), Len(xs) + Len(ys) + 1), 0)

\* xs < ys for numbers of any lengths
Less(xs, ys) ==
    LessLimbs(PadLimbs(xs, Len(ys)), PadLimbs(ys, Len(xs)))

Signed(negative, magnitude) ==
    [negative |-> negative /\ ~ ZeroLimbs(magnitude), magnitude |-> magnitude]

\* constants.rs 97-98: 0.7790572732640 + 1.0027378119113546 * d for
\* d = jd - J2000_JD
EraArgument(jd) ==
    IF jd >= J2000_JD
    THEN Signed(FALSE, AddLimbs(EraOffset, MulLimbs(EraRate, jd - J2000_JD, 0), 0))
    ELSE IF LessLimbs(EraOffset, MulLimbs(EraRate, J2000_JD - jd, 0))
         THEN Signed(TRUE, SubLimbs(MulLimbs(EraRate, J2000_JD - jd, 0), EraOffset, 0))
         ELSE Signed(FALSE, SubLimbs(EraOffset, MulLimbs(EraRate, J2000_JD - jd, 0), 0))

\* x - floor(x): a fractional part that is never negative.
FractOfFloor(x) ==
    IF x.negative /\ ~ ZeroLimbs(SubSeq(x.magnitude, 1, TurnLimbs))
    THEN Signed(FALSE, SubLimbs(<<0, 0, 0, 0, 0, 1>>,
                                SubSeq(x.magnitude, 1, TurnLimbs) \o <<0>>, 0))
    ELSE Signed(FALSE, SubSeq(x.magnitude, 1, TurnLimbs) \o <<0>>)

\* f64::fract: x - x.trunc(), which has the sign of x
Fract(x) == Signed(x.negative, SubSeq(x.magnitude, 1, TurnLimbs) \o <<0>>)

\* constants.rs 96-99, the angle in units of 10^-20 turn
earth_rotation_angle(jd) == Fract(EraArgument(jd))

EarthRotationAngle ==
    /\ output = Pending
    /\ output' = earth_rotation_angle(input)
    /\ UNCHANGED <<input, cacheVars, validateVars, tleVars, orbitVars, onceVars>>

\* The Julian Dates tried: the quarter days within EraSpan of J2000 and the
\* midnights of ValidateInit.
EraInit ==
    /\ CacheIdle
    /\ ValidateIdle
    /\ TleIdle
    /\ OrbitIdle
    /\ OnceIdle
    /\ input \in ((J2000_JD - EraSpan)..(J2000_JD + EraSpan))
                    \cup {utc_to_julian_date(DateTime(d, 0)) : d \in EpochDays}
    /\ output = Pending

EraNext == EarthRotationAngle

EraSpec == EraInit /\ [][EraNext]_vars

(***************************************************************************)
(* Spherical celestial coordinates  (ext.rs 50-102).  The directions are   *)
(* those of the 3-4-5 triangle: an angle is q quarter turns plus nothing,  *)
(* plus alpha = atan(3/4) or plus pi/2 - alpha, so that its sine and       *)
(* cosine are whole fifths; lengths are in metres, multiples of 25, so     *)
(* that the products of from_ra_dec are whole numbers.                     *)
(***************************************************************************)
Direction(q, a) == [q |-> q, a |-> a]

\* 5 sin and 5 cos of the part of the angle above its quarter turns
FifthsOfStep(a) ==
    CASE a = 0 -> [sin |-> 0, cos |-> 5]
      [] a = 1 -> [sin |-> 3, cos |-> 4]
      [] a = 2 -> [sin |-> 4, cos |-> 3]

\* 5 sin(angle) and 5 cos(angle)
Sin5(angle) ==
    CASE angle.q % 4 = 0 -> FifthsOfStep(angle.a).sin
      [] angle.q % 4 = 1 -> FifthsOfStep(angle.a).cos
      [] angle.q % 4 = 2 -> 0 - FifthsOfStep(angle.a).sin
      [] angle.q % 4 = 3 -> 0 - FifthsOfStep(angle.a).cos

Cos5(angle) ==
    CASE angle.q % 4 = 0 -> FifthsOfStep(angle.a).cos
      [] angle.q % 4 = 1 -> 0 - FifthsOfStep(angle.a).sin
      [] angle.q % 4 = 2 -> 0 - FifthsOfStep(angle.a).cos
      [] angle.q % 4 = 3 -> FifthsOfStep(angle.a).sin

Sign(n) == IF n > 0 THEN 1 ELSE IF n < 0 THEN 0 - 1 ELSE 0

\* f64::atan2: the angle of (-pi, pi] in the direction (x, y); 0 at the origin
Atan2(y, x) ==
    IF x = 0 /\ y = 0 THEN Direction(0, 0)
    ELSE CHOOSE angle \in {Direction(q, a) : q \in (0 - 2)..1, a \in 0..2}
                              \cup {Direction(2, 0)} :
            /\ angle # Direction(0 - 2, 0)
            /\ y * Cos5(angle) = x * Sin5(angle)
            /\ Sign(Sin5(angle)) = Sign(y)
            /\ Sign(Cos5(angle)) = Sign(x)

\* (z / r).asin() for r > 0: the angle of [-pi/2, pi/2] with that sine
Asin(z, r) ==
    CHOOSE angle \in {Direction(q, a) : q \in {0 - 1, 0}, a \in 0..2} \cup {Direction(1, 0)} :
        5 * z = Sin5(angle) * r

\* Coordinate::distance_from_origin: sqrt(x^2 + y^2 + z^2)
distance_from_origin(self) ==
    CHOOSE d \in 0..(Abs(self[1]) + Abs(self[2]) + Abs(self[3])) :
        d * d = self[1] * self[1] + self[2] * self[2] + self[3] * self[3]

\* ext.rs 82-101
from_ra_dec(ra, dec, distance) ==
    << (distance * Cos5(dec) * Cos5(ra)) \div 25,
       (distance * Cos5(dec) * Sin5(ra)) \div 25,
       (distance * Sin5(dec)) \div 5 >>

\* ext.rs 62-67 without the step that adds 2 pi to a negative angle
RightAscensionOfAtan2(ra) == ra

\* ext.rs 62-67: a negative right ascension has 2 pi added
RightAscension(ra) == IF ra.q < 0 THEN Direction(ra.q + 4, ra.a) ELSE ra

\* ext.rs 51-80
to_spherical_celestial(self) ==
    [ra |-> RightAscension(Atan2(self[2], self[1])),
     dec |-> IF distance_from_origin(self) > 0
             THEN Asin(self[3], distance_from_origin(self))
             ELSE Direction(0, 0),
     distance |-> distance_from_origin(self)]

NoCoordinate == [coordinate |-> Pending, spherical |-> Pending]

FromRaDec ==
    /\ output.coordinate = Pending
    /\ output' = [output EXCEPT
                     !.coordinate = from_ra_dec(input.ra, input.dec, input.distance)]
    /\ UNCHANGED <<input, cacheVars, validateVars, tleVars, orbitVars, onceVars>>

ToSphericalCelestial ==
    /\ output.coordinate # Pending
    /\ output.spherical = Pending
    /\ output' = [output EXCEPT !.spherical = to_spherical_celestial(output.coordinate)]
    /\ UNCHANGED <<input, cacheVars, validateVars, tleVars, orbitVars, onceVars>>

\* Every right ascension of [0, 2 pi), every declination of [-pi/2, pi/2], the
\* poles included, and the distances 0, 25 m, ..., 25 MaxDistance m.
SphericalInit ==
    /\ CacheIdle
    /\ ValidateIdle
    /\ TleIdle
    /\ OrbitIdle
    /\ OnceIdle
    /\ input \in [ra : {Direction(q, a) : q \in 0..3, a \in 0..2},
                  dec : {Direction(q, a) : q \in {0 - 1, 0}, a \in 0..2}
                            \cup {Direction(1, 0)},
                  distance : {25 * k : k \in 0..MaxDistance}]
    /\ output = NoCoordinate

SphericalNext == FromRaDec \/ ToSphericalCelestial

SphericalSpec == SphericalInit /\ [][SphericalNext]_vars

\* orbital.rs 186: sqrt(mu / a^3), in quarter turns a quarter day
MeanMotion(a, mu) == CASE a = SyncAxis /\ mu = MU_EARTH -> 1

\* 2 * atan(t) for t the tangent of half of q quarter turns, scaled by a
\* positive factor that is 1 when e2 = 0: the angle of (-2, 2] quarter turns
\* that q is equal to modulo a turn.  At the odd half turns the tangent has a
\* pole and the f64 one is a huge number: positive at pi/2 and 3pi/2, negative
\* at -pi/2; its sign at the others is left open.
HalfAngleAtan(q, e2) ==
    CASE q % 4 = 0 -> {0}
      [] q % 4 = 2 -> IF q \in {2, 6} THEN {2}
                      ELSE IF q = 0 - 2 THEN {0 - 2}
                      ELSE {2, 0 - 2}
      [] q % 4 = 1 /\ e2 = 0 -> {1}
      [] q % 4 = 3 /\ e2 = 0 -> {0 - 1}

\* orbital.rs 203: e_anom - (e_anom - e * sin(e_anom) - M) / (1 - e * cos(e_anom)),
\* where e * sin(e_anom) is 0: the orbit is circular or e_anom a half turn
NewtonStep(e_anom, new_mean_anomaly, e2) ==
    CASE e2 = 0 \/ Sin(e_anom) = 0 ->
        e_anom - ((e_anom - new_mean_anomaly) * 2) \div (2 - e2 * Cos(e_anom))

\* orbital.rs 202: for _ in 0..10
NewtonUpdates == 10

\* orbital.rs 183-201: the call up to the loop.  ecc_anomaly is one of
\* HalfAngleAtan(nu, e), and e * sin(ecc_anomaly) is 0.
PropagationStart(self, target, current, ecc_anomaly) ==
    LET dt      == utc_to_julian_date(target) - utc_to_julian_date(current)
        delta_m == MeanMotion(self.semi_major_axis, self.mu) * dt
        mean_anomaly == ecc_anomaly
        new_mean_anomaly == mean_anomaly + delta_m
    IN  [pc |-> "loop", dt |-> dt, new_mean_anomaly |-> new_mean_anomaly,
         e_anom |-> new_mean_anomaly, updates |-> 0, result |-> Pending]

\* The elements with the true anomaly kept.
WithTrueAnomalyKept(self, new_nu) == self

\* orbital.rs 209-212 with ..Default::default() in the place of ..*self
WithTrueAnomalyOfDefault(self, new_nu) == [Default EXCEPT !.true_anomaly = new_nu]

\* orbital.rs 209-212: Self { true_anomaly: new_nu, ..*self }
WithTrueAnomaly(self, new_nu) == [self EXCEPT !.true_anomaly = new_nu]

Propagate ==
    /\ elements # Pending
    /\ propagation = Pending
    /\ \E ecc_anomaly \in HalfAngleAtan(elements.true_anomaly, elements.eccentricity) :
         propagation' = PropagationStart(elements, target_epoch, current_epoch, ecc_anomaly)
    /\ UNCHANGED <<elements, target_epoch, current_epoch, state_vectors,
                   cacheVars, validateVars, tleVars, onceVars, fnVars>>

NewtonUpdate ==
    /\ propagation # Pending
    /\ propagation.pc = "loop"
    /\ propagation.updates < NewtonUpdates
    /\ propagation' =
           [propagation EXCEPT
               !.e_anom = NewtonStep(propagation.e_anom, propagation.new_mean_anomaly,
                                     elements.eccentricity),
               !.updates = @ + 1]
    /\ UNCHANGED <<elements, target_epoch, current_epoch, state_vectors,
                   cacheVars, validateVars, tleVars, onceVars, fnVars>>

\* orbital.rs 202-207 with a test that leaves the loop once the update no
\* longer moves the iterate
PropagateReturnConverged ==
    /\ propagation # Pending
    /\ propagation.pc = "loop"
    /\ \/ ~ (propagation.updates < NewtonUpdates)
       \/ NewtonStep(propagation.e_anom, propagation.new_mean_anomaly,
                     elements.eccentricity) = propagation.e_anom
    /\ \E new_nu \in HalfAngleAtan(propagation.e_anom, elements.eccentricity) :
         propagation' = [propagation EXCEPT !.pc = "done",
                                            !.result = WithTrueAnomaly(elements, new_nu)]
    /\ UNCHANGED <<elements, target_epoch, current_epoch, state_vectors,
                   cacheVars, validateVars, tleVars, onceVars, fnVars>>

PropagateReturn ==
    /\ propagation # Pending
    /\ propagation.pc = "loop"
    /\ ~ (propagation.updates < NewtonUpdates)
    /\ \E new_nu \in HalfAngleAtan(propagation.e_anom, elements.eccentricity) :
         propagation' = [propagation EXCEPT !.pc = "done",
                                            !.result = WithTrueAnomaly(elements, new_nu)]
    /\ UNCHANGED <<elements, target_epoch, current_epoch, state_vectors,
                   cacheVars, validateVars, tleVars, onceVars, fnVars>>

ToStateVectors ==
    /\ elements # Pending
    /\ state_vectors = Pending
    /\ state_vectors' = to_state_vectors(elements)
    /\ UNCHANGED <<elements, target_epoch, current_epoch, propagation,
                   cacheVars, validateVars, tleVars, onceVars, fnVars>>

\* The epochs and elements tried.
MaxQuarters == 3

OrbitDay == DaysFromCivil(2020, 7, 24)

OrbitEpochs ==
    {DateTime(OrbitDay + q \div 4, (q % 4) * SecondsPerQuarterDay) : q \in 0..MaxQuarters}

\* Every element on the lattice; the eccentric orbits start at periapsis or
\* apoapsis, the propagated ones have a period of one day.
OrbitElements ==
    {KeplerianElements(a, e2, i, raan, omega, nu, MU_EARTH) :
        a \in {Default.semi_major_axis, SyncAxis}, e2 \in {0, 1}, i \in {0, 1, 2},
        raan \in {0, 1}, omega \in {0, 1}, nu \in {0 - 1, 0, 1, 2}}

OrbitInit ==
    /\ CacheIdle
    /\ ValidateIdle
    /\ TleIdle
    /\ OnceIdle
    /\ FnIdle
    /\ elements \in {el \in OrbitElements : el.eccentricity = 0 \/ el.true_anomaly \in {0, 2}}
    /\ target_epoch \in OrbitEpochs
    /\ current_epoch \in OrbitEpochs
    /\ (elements.eccentricity # 0 =>
            (utc_to_julian_date(target_epoch) - utc_to_julian_date(current_epoch)) % 2 = 0)
    /\ propagation = Pending
    /\ state_vectors = Pending

OrbitNext ==
    \/ elements.semi_major_axis = SyncAxis /\ Propagate
    \/ NewtonUpdate
    \/ PropagateReturn
    \/ ToStateVectors

OrbitSpec == OrbitInit /\ [][OrbitNext]_vars

\* A call that has begun runs on: the loop and the return are straight-line
\* code of one thread.
OrbitLiveSpec ==
    OrbitSpec /\ WF_vars(NewtonUpdate) /\ WF_vars(PropagateReturn)

(***************************************************************************)
(* TleElements::to_keplerian and TleElements::propagate_to                 *)
(* (tle.rs 212-243), for element sets whose angles are whole quarter       *)
(* turns, whose eccentricity is 0 or 0.5 and whose mean motion is one      *)
(* revolution a day.                                                       *)
(***************************************************************************)
\* Angle::new::<degree>: the quarter turns of a whole multiple of 90 degrees
QuarterTurns(deg) ==
    CASE deg.kind = "fin" /\ deg.frac = << >> /\ NatOfDigits(deg.int) % 90 = 0 ->
        (IF deg.neg THEN 0 - 1 ELSE 1) * (NatOfDigits(deg.int) \div 90)

\* The halves of an eccentricity of 0 or 0.5.
Halves(ecc) ==
    CASE ecc.kind = "fin" /\ ecc.int = << >> /\ ecc.frac = << >> -> 0
      [] ecc.kind = "fin" /\ ecc.int = << >> /\ ecc.frac = <<5>> /\ ~ ecc.neg -> 1

\* cbrt(MU_EARTH / n^2) for the 15.49309432 revolutions a day of the ISS lines,
\* to the metre
IssAxis == 6796882

\* tle.rs 214-218: n = mean_motion * 2 pi / 86400, a = cbrt(mu / n^2), for one
\* revolution a day and for the mean motion of the ISS lines
AxisOfMeanMotion(mean_motion) ==
    CASE mean_motion = Float("fin", FALSE, <<1>>, << >>) -> SyncAxis
      [] mean_motion = Float("fin", FALSE, <<1, 5>>, <<4, 9, 3, 0, 9, 4, 3, 2>>) -> IssAxis

\* A conversion that takes a / 1000, the axis in kilometres, for a length in
\* metres: a length 1000 times too short.
to_keplerian_of_metres(self) ==
    [semi_major_axis |-> AxisOfMeanMotion(self.mean_motion) \div 1000,
     eccentricity |-> Halves(self.eccentricity),
     inclination |-> QuarterTurns(self.inclination), raan |-> QuarterTurns(self.raan),
     argument_of_periapsis |-> QuarterTurns(self.arg_perigee),
     true_anomaly |-> QuarterTurns(self.mean_anomaly), mu |-> MU_EARTH]

\* A conversion that starts the orbit at periapsis.
to_keplerian_at_periapsis(self) ==
    [semi_major_axis |-> AxisOfMeanMotion(self.mean_motion),
     eccentricity |-> Halves(self.eccentricity),
     inclination |-> QuarterTurns(self.inclination), raan |-> QuarterTurns(self.raan),
     argument_of_periapsis |-> QuarterTurns(self.arg_perigee),
     true_anomaly |-> 0, mu |-> MU_EARTH]

\* tle.rs 212-228: the mean anomaly is passed as the true anomaly
to_keplerian(self) ==
    KeplerianElements(AxisOfMeanMotion(self.mean_motion), Halves(self.eccentricity),
                      QuarterTurns(self.inclination), QuarterTurns(self.raan),
                      QuarterTurns(self.arg_perigee), QuarterTurns(self.mean_anomaly),
                      MU_EARTH)

\* orbital.rs 201-204: the loop as a whole
RECURSIVE NewtonLoop(_, _, _, _)
NewtonLoop(e_anom, new_mean_anomaly, e2, updates) ==
    IF updates < NewtonUpdates
    THEN NewtonLoop(NewtonStep(e_anom, new_mean_anomaly, e2), new_mean_anomaly, e2,
                    updates + 1)
    ELSE e_anom

\* orbital.rs 180-213: the call as a whole, as the set of records it may return
propagate_to(self, target, current) ==
    UNION { { WithTrueAnomaly(self, new_nu) :
                new_nu \in HalfAngleAtan(
                    NewtonLoop(PropagationStart(self, target, current, ecc_anomaly).e_anom,
                               PropagationStart(self, target, current, ecc_anomaly).new_mean_anomaly,
                               self.eccentricity, 0),
                    self.eccentricity) } :
            ecc_anomaly \in HalfAngleAtan(self.true_anomaly, self.eccentricity) }

\* tle.rs 238-243 with the check of the epoch that the documentation promises
tle_propagate_to_checked(self, target) ==
    IF validate_epoch(target).tag # "Ok" THEN {validate_epoch(target)}
    ELSE { Ok(to_state_vectors(propagated).position) :
             propagated \in propagate_to(to_keplerian(self), target, self.epoch) }

\* tle.rs 230-243: the results the call may return
tle_propagate_to(self, target) ==
    { Ok(to_state_vectors(propagated).position) :
        propagated \in propagate_to(to_keplerian(self), target, self.epoch) }

TlePropagateTo ==
    /\ tle # Pending
    /\ tle.tag = "Ok"
    /\ tle_position = Pending
    /\ tle_position' \in tle_propagate_to(tle.result.value, tle_target)
    /\ UNCHANGED <<line1, line2, tle, tle_target, cacheVars, validateVars,
                   orbitVars, onceVars, fnVars>>

\* TleElements::to_keplerian called on the elements from_lines returned.
ToKeplerian ==
    /\ tle # Pending
    /\ tle.tag = "Ok"
    /\ elements = Pending
    /\ elements' = to_keplerian(tle.result.value)
    /\ UNCHANGED <<target_epoch, current_epoch, propagation, state_vectors,
                   cacheVars, validateVars, tleVars, onceVars, fnVars>>

\* The fields tried: q quarter turns in degrees, and day 206 and q quarters.
QuarterTurnField(q) ==
    CASE q = 0 -> <<" ", " ", "0", ".", "0", "0", "0", "0">>
      [] q = 1 -> <<" ", "9", "0", ".", "0", "0", "0", "0">>
      [] q = 2 -> <<"1", "8", "0", ".", "0", "0", "0", "0">>
      [] q = 3 -> <<"2", "7", "0", ".", "0", "0", "0", "0">>

QuarterDayField(q) ==
    CASE q = 0 -> <<"2", "0", "6", ".", "0", "0", "0", "0", "0", "0", "0", "0">>
      [] q = 1 -> <<"2", "0", "6", ".", "2", "5", "0", "0", "0", "0", "0", "0">>
      [] q = 2 -> <<"2", "0", "6", ".", "5", "0", "0", "0", "0", "0", "0", "0">>
      [] q = 3 -> <<"2", "0", "6", ".", "7", "5", "0", "0", "0", "0", "0", "0">>

CircularField == <<"0", "0", "0", "0", "0", "0", "0">>

EccentricField == <<"5", "0", "0", "0", "0", "0", "0">>

DailyField == <<" ", "1", ".", "0", "0", "0", "0", "0", "0", "0", "0">>

\* IssLine2 with the elements replaced (tle.rs 118-169 for the columns).
ElementsLine(inc, raan, ecc, argp, ma) ==
    Replace(Replace(Replace(Replace(Replace(Replace(IssLine2,
        8, inc), 17, raan), 26, ecc), 34, argp), 43, ma), 52, DailyField)

\* The targets tried: the quarters of the day of the epoch and of the day
\* before it, and instants on both sides of the limits of validate_epoch.
TleTargets ==
    OrbitEpochs
      \cup {DateTime(OrbitDay - 1, q * SecondsPerQuarterDay) : q \in 0..MaxQuarters}
      \cup {DateTime(d, s) :
                d \in {FirstValidDay - 1, FirstValidDay, FirstInvalidDay - 1, FirstInvalidDay},
                s \in {0, 2 * SecondsPerQuarterDay}}

\* An eccentric orbit starts at periapsis or apoapsis and is propagated by
\* whole half days.
TleOrbitInputs ==
    { <<Replace(IssLine1, 20, QuarterDayField(day)),
        ElementsLine(QuarterTurnField(inc), QuarterTurnField(raan), CircularField,
                     QuarterTurnField(argp), QuarterTurnField(ma)),
        target>> :
        day \in 0..3, inc \in 0..2, raan \in 0..1, argp \in 0..1, ma \in 0..3,
        target \in TleTargets }
      \cup
    { <<Replace(IssLine1, 20, QuarterDayField(day)),
        ElementsLine(QuarterTurnField(inc), QuarterTurnField(raan), EccentricField,
                     QuarterTurnField(argp), QuarterTurnField(ma)),
        target>> :
        day \in {0, 2}, inc \in 0..2, raan \in 0..1, argp \in 0..1, ma \in {0, 2},
        target \in {t \in TleTargets : t.secs % (2 * SecondsPerQuarterDay) = 0} }

\* Columns 52..62 of the second ISS line: 15.49309432 revolutions a day.
IssMotionField == SubSeq(IssLine2, 53, 63)

\* Lines for to_keplerian: every quarter turn in the angle fields, both
\* eccentricities and both mean motions.
KeplerInputs ==
    { Replace(ElementsLine(QuarterTurnField(inc), QuarterTurnField(raan), ecc,
                           QuarterTurnField(argp), QuarterTurnField(ma)), 52, motion) :
        inc \in 0..3, raan \in 0..1, ecc \in {CircularField, EccentricField},
        argp \in 0..1, ma \in 0..3, motion \in {DailyField, IssMotionField} }

KeplerInit ==
    /\ CacheIdle
    /\ ValidateIdle
    /\ OrbitIdle
    /\ OnceIdle
    /\ FnIdle
    /\ line1 = IssLine1
    /\ line2 \in KeplerInputs
    /\ tle_target = [days |-> 0, secs |-> 0]
    /\ tle = Pending
    /\ tle_position = Pending

KeplerNext ==
    \/ FromLines
    \/ ToKeplerian

KeplerSpec == KeplerInit /\ [][KeplerNext]_vars

TleOrbitInit ==
    /\ CacheIdle
    /\ ValidateIdle
    /\ OrbitIdle
    /\ OnceIdle
    /\ FnIdle
    /\ \E in \in TleOrbitInputs : line1 = in[1] /\ line2 = in[2] /\ tle_target = in[3]
    /\ tle = Pending
    /\ tle_position = Pending

TleOrbitNext ==
    \/ FromLines
    \/ TlePropagateTo

TleOrbitSpec == TleOrbitInit /\ [][TleOrbitNext]_vars

(***************************************************************************)
(* The fallible operations and the propagations together: a run calls      *)
(* validate_epoch, or from_lines and then TleElements::propagate_to, or    *)
(* KeplerianElements::propagate_to and to_state_vectors, on the arguments  *)
(* it starts with; the operations it has no arguments for see empty lines  *)
(* and the epoch 1970-01-01.                                               *)
(***************************************************************************)
\* Element sets that parse, with targets inside and outside 1900-2100, and
\* lines that from_lines rejects or fails on.
ApiTleInputs ==
    { <<Replace(IssLine1, 20, QuarterDayField(0)),
        ElementsLine(QuarterTurnField(0), QuarterTurnField(0), CircularField,
                     QuarterTurnField(0), QuarterTurnField(ma)),
        target>> :
        ma \in 0..1,
        target \in { DateTime(FirstValidDay - 1, 0), DateTime(FirstInvalidDay - 1, 0),
                     DateTime(FirstInvalidDay, 0), DateTime(OrbitDay, SecondsPerQuarterDay) } }
      \cup
    { <<l1, ElementsLine(QuarterTurnField(0), QuarterTurnField(0), CircularField,
                         QuarterTurnField(0), QuarterTurnField(0)),
        DateTime(OrbitDay, 0)>> :
        l1 \in {l \in Line1Probes : from_lines(l, IssLine2).tag # "Ok"} }
      \cup
    { <<Replace(IssLine1, 20, QuarterDayField(0)), l2, DateTime(OrbitDay, 0)>> :
        l2 \in {l \in Line2Probes \cup {Replace(IssLine2, 52, f) : f \in MeanMotionFields}
                                  \cup {Replace(IssLine2, 8, f) : f \in AngleFields} :
                   from_lines(IssLine1, l).tag # "Ok"} }

ApiElements ==
    {el \in OrbitElements :
        /\ el.semi_major_axis = SyncAxis
        /\ el.inclination = 1 /\ el.raan = 0 /\ el.argument_of_periapsis = 1
        /\ el.true_anomaly \in {0, 2}}

ApiInit ==
    /\ CacheIdle
    /\ OnceIdle
    /\ FnIdle
    /\ vResult = Pending
    /\ tle = Pending
    /\ tle_position = Pending
    /\ propagation = Pending
    /\ state_vectors = Pending
    /\ \/ /\ vEpoch \in {DateTime(d, s) : d \in EpochDays, s \in {0, 86399}}
          /\ line1 = << >> /\ line2 = << >> /\ tle_target = DateTime(0, 0)
          /\ elements = Pending
          /\ target_epoch = DateTime(0, 0) /\ current_epoch = DateTime(0, 0)
       \/ /\ vEpoch = DateTime(0, 0)
          /\ \E in \in ApiTleInputs : line1 = in[1] /\ line2 = in[2] /\ tle_target = in[3]
          /\ elements = Pending
          /\ target_epoch = DateTime(0, 0) /\ current_epoch = DateTime(0, 0)
       \/ /\ vEpoch = DateTime(0, 0)
          /\ line1 = << >> /\ line2 = << >> /\ tle_target = DateTime(0, 0)
          /\ elements \in ApiElements
          /\ target_epoch \in
                 { DateTime(FirstValidDay - 1, 0), DateTime(OrbitDay, 0),
                   DateTime(FirstInvalidDay, 0) }
          /\ current_epoch = DateTime(OrbitDay, 0)

ApiNext ==
    \/ ValidateEpoch
    \/ FromLines
    \/ TlePropagateTo
    \/ Propagate
    \/ NewtonUpdate
    \/ PropagateReturn
    \/ ToStateVectors

ApiSpec == ApiInit /\ [][ApiNext]_vars

(***************************************************************************)
(* constants.rs: the OnceLock statics MCI_TO_ICRS_ROTATION and             *)
(* POLAR_MOTION_CORRECTION and their getters.                              *)
(*                                                                         *)
(* OnceLock::get_or_init returns the value if there is one; otherwise it   *)
(* claims the cell, runs the initializer and stores the result, or, while  *)
(* another thread holds the claim, waits until that thread has stored its  *)
(* result.  A quaternion is written as the product it is computed as: the  *)
(* sequence of its axis-angle factors, the empty one being the identity.   *)
(* The Option in the cell is a set of at most one value.                   *)
(***************************************************************************)
MaxGets == 2            \* calls of the getters by one thread

Statics == {"MCI_TO_ICRS_ROTATION", "POLAR_MOTION_CORRECTION"}

\* constants.rs 49-58, in degrees
RA_DEG == "269.9949"

DEC_DEG == "66.5392"

W_DEG == "38.3213"

\* UnitQuaternion::from_axis_angle
AxisAngle(axis, deg) == [axis |-> axis, deg |-> deg]

\* UnitQuaternion::identity
Identity == << >>

\* constants.rs 67-76 and 231: the initializers
Initializer(s) ==
    CASE s = "MCI_TO_ICRS_ROTATION" ->
            <<AxisAngle("z", RA_DEG), AxisAngle("y", DEC_DEG), AxisAngle("x", W_DEG)>>
      [] s = "POLAR_MOTION_CORRECTION" -> Identity

\* OnceLock::new()
OnceLockNew == [state |-> "incomplete", value |-> {}, inits |-> 0]

\* A thread outside the getters, and what its calls have returned.  As
\* history, path is the way a call takes through get_or_init: "fast" when get
\* finds the value, "ran" when the call runs the initializer, "waited" when
\* initialize finds the value stored by another call.
NotGetting ==
    [pc |-> "idle", static |-> "none", path |-> "none", calls |-> 0, returned |-> << >>]

\* &'static UnitQuaternion: the place and what is read there
Reference(s) == [ref |-> s, value |-> CHOOSE q \in once[s].value : TRUE]

\* constants.rs 66-67, 230-231: mci_to_icrs_rotation() or
\* polar_motion_correction() is called
GetOrInit(t, s) ==
    /\ getting[t].pc = "idle"
    /\ getting[t].calls < MaxGets
    /\ getting' = [getting EXCEPT ![t].pc = "get", ![t].static = s,
                                  ![t].path = "fast", ![t].calls = @ + 1]
    /\ UNCHANGED <<once, cacheVars, validateVars, tleVars, orbitVars, fnVars>>

\* get_or_init: if let Some(value) = self.get() { return value }
Get(t) ==
    /\ getting[t].pc = "get"
    /\ getting' = [getting EXCEPT ![t].pc =
                       IF once[getting[t].static].state = "complete"
                       THEN "return" ELSE "initialize"]
    /\ UNCHANGED <<once, cacheVars, validateVars, tleVars, orbitVars, fnVars>>

\* initialize without the wait: a thread that finds no value runs the
\* initializer, whoever else is running it
InitializeRacy(t) ==
    /\ getting[t].pc = "initialize"
    /\ IF once[getting[t].static].state # "complete"
       THEN /\ once' = [once EXCEPT ![getting[t].static].state = "running"]
            /\ getting' = [getting EXCEPT ![t].pc = "compute", ![t].path = "ran"]
       ELSE /\ getting' = [getting EXCEPT ![t].pc = "return", ![t].path = "waited"]
            /\ UNCHANGED once
    /\ UNCHANGED <<cacheVars, validateVars, tleVars, orbitVars, fnVars>>

\* OnceLock::initialize, Once::call_once_force: claim the cell, or wait while
\* it is claimed
Initialize(t) ==
    /\ getting[t].pc = "initialize"
    /\ once[getting[t].static].state # "running"
    /\ IF once[getting[t].static].state = "incomplete"
       THEN /\ once' = [once EXCEPT ![getting[t].static].state = "running"]
            /\ getting' = [getting EXCEPT ![t].pc = "compute", ![t].path = "ran"]
       ELSE /\ getting' = [getting EXCEPT ![t].pc = "return", ![t].path = "waited"]
            /\ UNCHANGED once
    /\ UNCHANGED <<cacheVars, validateVars, tleVars, orbitVars, fnVars>>

\* the closure runs and its value is stored
RunInitializer(t) ==
    /\ getting[t].pc = "compute"
    /\ once' = [once EXCEPT ![getting[t].static] =
                   [state |-> "complete",
                    value |-> {Initializer(getting[t].static)},
                    inits |-> @.inits + 1]]
    /\ getting' = [getting EXCEPT ![t].pc = "return"]
    /\ UNCHANGED <<cacheVars, validateVars, tleVars, orbitVars, fnVars>>

\* get_or_init returns the reference to the value in the cell
GetOrInitReturn(t) ==
    /\ getting[t].pc = "return"
    /\ getting' = [getting EXCEPT
                      ![t].pc = "idle",
                      ![t].returned =
                          Append(@, [getter |-> getting[t].static,
                                     path |-> getting[t].path,
                                     to |-> Reference(getting[t].static)])]
    /\ UNCHANGED <<once, cacheVars, validateVars, tleVars, orbitVars, fnVars>>

OnceInit ==
    /\ CacheIdle
    /\ ValidateIdle
    /\ TleIdle
    /\ OrbitIdle
    /\ once = [s \in Statics |-> OnceLockNew]
    /\ getting = [t \in Threads |-> NotGetting]
    /\ FnIdle

OnceNext ==
    \E t \in Threads :
        \/ \E s \in Statics : GetOrInit(t, s)
        \/ Get(t)
        \/ Initialize(t)
        \/ RunInitializer(t)
        \/ GetOrInitReturn(t)

OnceSpec == OnceInit /\ [][OnceNext]_vars

(***************************************************************************)
(* Transforms between the frames  (transforms.rs 28-64, constants.rs       *)
(* 111-163, rotation_helper.rs 20-35).  The angles of the precession and   *)
(* the nutation are kept as the names of the formulas and the Julian Date  *)
(* they are evaluated at; a coordinate is a point and the rotations it     *)
(* has been taken through since, a rotation followed by its inverse        *)
(* leaving the coordinate as it was.                                       *)
(***************************************************************************)
\* An angle computed from the Julian Date, or its negative.
AngleAt(formula, negated, jd) == [formula |-> formula, negated |-> negated, jd |-> jd]

\* constants.rs 173-215: R_x(-(eps0 + deps)) * R_z(-dpsi) * R_x(eps0)
nutation_matrix(jd) ==
    <<AxisAngle("x", AngleAt("eps0 + deps", TRUE, jd)),
      AxisAngle("z", AngleAt("dpsi", TRUE, jd)),
      AxisAngle("x", AngleAt("eps0", FALSE, jd))>>

\* constants.rs 126-163: ERA * nutation * precession
icrs_to_ecef_rotation_with_nutation(time, include_nutation) ==
    <<AxisAngle("z", earth_rotation_angle(utc_to_julian_date(time)))>>
        \o (IF include_nutation THEN nutation_matrix(utc_to_julian_date(time))
            ELSE Identity)
        \o <<AxisAngle("z", AngleAt("zeta", TRUE, utc_to_julian_date(time))),
             AxisAngle("y", AngleAt("theta", FALSE, utc_to_julian_date(time))),
             AxisAngle("z", AngleAt("z", TRUE, utc_to_julian_date(time)))>>

\* constants.rs 111-113
icrs_to_ecef_rotation(time) == icrs_to_ecef_rotation_with_nutation(time, FALSE)

\* rotation_helper.rs 20-35: the rotation built again from the Euler angles of
\* the quaternion
rotation_from_quaternion(quat) ==
    [yaw |-> <<"yaw", quat>>, pitch |-> <<"pitch", quat>>, roll |-> <<"roll", quat>>,
     inverted |-> FALSE]

ZeroVector == <<0, 0, 0>>

\* RigidBodyTransform::new, with the frames of its type
RigidBodyTransform(from, to, translation, rotation) ==
    [from |-> from, to |-> to, translation |-> translation, rotation |-> rotation]

\* A transform given out as its own inverse, with only the frames exchanged.
InverseOfFramesOnly(transform) ==
    RigidBodyTransform(transform.to, transform.from, transform.translation,
                       transform.rotation)

\* RigidBodyTransform::inverse of a transform without translation
Inverse(transform) ==
    CASE transform.translation = ZeroVector ->
        RigidBodyTransform(transform.to, transform.from, ZeroVector,
                           [transform.rotation EXCEPT !.inverted = ~ @])

\* transforms.rs 29-35
icrs_to_ecef_at(time) ==
    RigidBodyTransform("Icrs", "Ecef", ZeroVector,
                       rotation_from_quaternion(icrs_to_ecef_rotation(time)))

\* transforms.rs 41-43 with the nutation in the rotation that is inverted
ecef_to_icrs_at_with_nutation(time) ==
    Inverse(RigidBodyTransform("Icrs", "Ecef", ZeroVector,
                rotation_from_quaternion(icrs_to_ecef_rotation_with_nutation(time, TRUE))))

\* transforms.rs 41-43
ecef_to_icrs_at(time) == Inverse(icrs_to_ecef_at(time))

\* transforms.rs 50-56: the quaternion is the one the OnceLock holds
mci_to_icrs ==
    RigidBodyTransform("Mci", "Icrs", ZeroVector,
                       rotation_from_quaternion(Initializer("MCI_TO_ICRS_ROTATION")))

\* transforms.rs 62-64
icrs_to_mci == Inverse(mci_to_icrs)

\* Coordinate<F>: the point it was made at and the rotations applied since
Coordinate(frame, point, rotations) ==
    [frame |-> frame, point |-> point, rotations |-> rotations]

\* RigidBodyTransform::transform of a coordinate of its From frame
Transform(transform, coordinate) ==
    CASE coordinate.frame = transform.from /\ transform.translation = ZeroVector ->
        IF /\ coordinate.rotations # << >>
           /\ coordinate.rotations[Len(coordinate.rotations)]
                  = [transform.rotation EXCEPT !.inverted = ~ @]
        THEN Coordinate(transform.to, coordinate.point,
                        SubSeq(coordinate.rotations, 1, Len(coordinate.rotations) - 1))
        ELSE Coordinate(transform.to, coordinate.point,
                        Append(coordinate.rotations, transform.rotation))

NoTransforms == [ecef |-> Pending, icrs |-> Pending, from_mci |-> Pending, mci |-> Pending]

\* The point taken as an ICRS coordinate to ECEF and back, and as an MCI
\* coordinate to ICRS and back.
IcrsToEcefAt ==
    /\ output.ecef = Pending
    /\ output' = [output EXCEPT !.ecef =
                     Transform(icrs_to_ecef_at(input.time),
                               Coordinate("Icrs", input.point, << >>))]
    /\ UNCHANGED <<input, cacheVars, validateVars, tleVars, orbitVars, onceVars>>

EcefToIcrsAt ==
    /\ output.ecef # Pending
    /\ output.icrs = Pending
    /\ output' = [output EXCEPT !.icrs = Transform(ecef_to_icrs_at(input.time), output.ecef)]
    /\ UNCHANGED <<input, cacheVars, validateVars, tleVars, orbitVars, onceVars>>

MciToIcrs ==
    /\ output.from_mci = Pending
    /\ output' = [output EXCEPT !.from_mci =
                     Transform(mci_to_icrs, Coordinate("Mci", input.point, << >>))]
    /\ UNCHANGED <<input, cacheVars, validateVars, tleVars, orbitVars, onceVars>>

IcrsToMci ==
    /\ output.from_mci # Pending
    /\ output.mci = Pending
    /\ output' = [output EXCEPT !.mci = Transform(icrs_to_mci, output.from_mci)]
    /\ UNCHANGED <<input, cacheVars, validateVars, tleVars, orbitVars, onceVars>>

\* The instants of OrbitInit and the midnights of ValidateInit; points with
\* components up to MaxComponent metres.
TransformInit ==
    /\ CacheIdle
    /\ ValidateIdle
    /\ TleIdle
    /\ OrbitIdle
    /\ OnceIdle
    /\ input \in [time : OrbitEpochs
                            \cup {DateTime(d, 0) : d \in {FirstValidDay, FirstInvalidDay}},
                  point : [1..3 -> (0 - MaxComponent)..MaxComponent]]
    /\ output = NoTransforms

TransformNext == IcrsToEcefAt \/ EcefToIcrsAt \/ MciToIcrs \/ IcrsToMci

TransformSpec == TransformInit /\ [][TransformNext]_vars

(***************************************************************************)
(* Specifications of the cache.                                            *)
(***************************************************************************)
CacheInit ==
    /\ \E tol \in Tolerances : handles = << Handle(1, tol, 1) >>
    /\ cells = [c \in HandleIds |-> None]
    /\ rlock = [c \in HandleIds |-> {}]
    /\ wlock = [c \in HandleIds |-> NoThread]
    /\ stack = [t \in Threads |-> << >>]
    /\ lastPub = [c \in HandleIds |-> Written(None, c, "new")]
    /\ ncalls = 0

Step(t) ==
    \/ AcquireRead(t)
    \/ CheckCache(t)
    \/ \E tr \in Transforms : ComputeReturn(t, tr)
    \/ AcquireWrite(t)
    \/ Publish(t)
    \/ Invalidate(t)
    \/ IsValidFor(t)

\* One thread, one call at a time.
Init == CacheInit /\ ValidateIdle /\ TleIdle /\ OrbitIdle /\ OnceIdle /\ FnIdle

Next ==
    \/ \E h \in 1..Len(handles) : Clone(h)
    \/ \E op \in Ops, h \in HandleIds, e \in Epochs : Begin(MainThread, op, h, e)
    \/ Step(MainThread)

Spec == Init /\ [][Next]_vars

\* One thread asks again and again, each time one tolerance later than the
\* time before: get_or_compute(t0), then get_or_compute or is_valid_for at
\* t0 + tol, t0 + 2 tol, ...
WindowNext ==
    \/ /\ Depth(MainThread) = 0
       /\ \E e \in Epochs : Begin(MainThread, "get_or_compute", 1, e)
    \/ /\ Depth(MainThread) = 1
       /\ \E op \in {"get_or_compute", "is_valid_for"} :
            Begin(MainThread, op, 1, Top(MainThread).epoch + handles[1].tol)
    \/ AcquireRead(MainThread)
    \/ CheckCache(MainThread)
    \/ \E tr \in Transforms : ComputeReturn(MainThread, tr)
    \/ AcquireWrite(MainThread)
    \/ Publish(MainThread)
    \/ IsValidFor(MainThread)

WindowSpec == Init /\ [][WindowNext]_vars

\* Any interleaving of the threads' calls, and calls made from compute_fn.  The
\* cache has been constructed and cloned once; each thread works through its own
\* handle, at the early or the late end of the epochs.
ThreadHandle(t) == IF t = MainThread THEN 1 ELSE 2

ConcEpochs == {0, MaxEpoch}

ConcInit ==
    /\ \E tol \in {0, TicksPerSecond} :
            handles = << Handle(1, tol, 1), Handle(1, tol, 1) >>
    /\ cells = [c \in HandleIds |-> None]
    /\ rlock = [c \in HandleIds |-> {}]
    /\ wlock = [c \in HandleIds |-> NoThread]
    /\ stack = [t \in Threads |-> << >>]
    /\ lastPub = [c \in HandleIds |-> Written(None, c, "new")]
    /\ ncalls = 0
    /\ ValidateIdle
    /\ TleIdle
    /\ OrbitIdle
    /\ OnceIdle
    /\ FnIdle

ConcNext ==
    \E t \in Threads :
        \/ \E op \in Ops, e \in ConcEpochs : Begin(t, op, ThreadHandle(t), e)
        \/ \E op \in Ops, e \in ConcEpochs : Nested(t, op, ThreadHandle(t), e)
        \/ Return(t)
        \/ Step(t)

ConcSpec == ConcInit /\ [][ConcNext]_vars

(***************************************************************************)
(* Claims about CachedTransform.                                           *)
(***************************************************************************)
Returned(t) == Depth(t) > 0 /\ Top(t).pc = "done"

HandleSet == 1..Len(handles)

\* The whole seconds of a duration of d ticks, stated from its definition: the
\* integer of d's sign whose magnitude is the number of full seconds in |d|.
WholeSeconds(d) ==
    CHOOSE n \in (0 - Abs(d))..Abs(d) :
        /\ n * d >= 0
        /\ Abs(n) * TicksPerSecond <= Abs(d)
        /\ Abs(d) < (Abs(n) + 1) * TicksPerSecond

C2_MissBeyondTolerance ==
    \A t \in Threads :
        Returned(t) =>
            LET f == Top(t) IN
            ( /\ f.op = "get_or_compute"
              /\ \/ ~ f.startEntry.some
                 \/ Abs(f.epoch - f.startEntry.epoch) > handles[f.h].tol )
            => /\ f.args = << f.epoch >>
               /\ cells[CellOf(f.h)] = CacheEntry(f.retTransform, f.epoch)

\* C3: in a sequential run, after invalidate() the cache is empty, is_valid_for
\* returns false for every epoch and the next get_or_compute invokes compute_fn
\* whatever its epoch; a freshly constructed cache behaves the same way.
C3_InvalidateEmpties ==
    \A t \in Threads :
        Returned(t) =>
            LET f == Top(t) IN
            /\ f.op = "invalidate" => ~ cells[CellOf(f.h)].some
            /\ ( f.op = "is_valid_for" /\ f.startPub.op \in {"invalidate", "new"} )
                    => f.retValid = FALSE
            /\ ( f.op = "get_or_compute" /\ f.startPub.op \in {"invalidate", "new"} )
                    => f.args = << f.epoch >>

\* is_valid_for has answered false for the very epoch that was cached before
\* the invalidate.
C3_Witness ==
    \E t \in Threads :
        /\ Returned(t)
        /\ Top(t).op = "is_valid_for"
        /\ Top(t).startPub.op = "invalidate"
        /\ Top(t).retValid = FALSE
        /\ ncalls >= 3

\* C4: a clone shares the entry of the original: what is stored or cleared
\* through any handle is what every handle of the cache holds and reads, and the
\* tolerance is copied unchanged.
C4_CloneShares ==
    /\ \A h \in HandleSet :
        /\ handles[h].tol = handles[handles[h].root].tol
        /\ (\A t \in Threads : Depth(t) > 0 => Top(t).pc # "store")
                => cells[CellOf(h)] = lastPub[handles[h].root].entry
    /\ \A t \in Threads :
        Returned(t) /\ Top(t).op # "invalidate"
            => Top(t).seen = Top(t).startPub.entry

\* A call through one handle has read the entry stored through another.
C4_Witness ==
    \E t \in Threads :
        /\ Returned(t)
        /\ Top(t).op = "get_or_compute"
        /\ Top(t).startPub.op = "get_or_compute"
        /\ Top(t).startPub.via # Top(t).h
        /\ Top(t).seen.some
        /\ Top(t).args = << >>

\* The locks a thread holds on a cell.
HoldsRead(t, c) == t \in rlock[c]

HoldsWrite(t, c) == wlock[c] = t

HoldsAny(t) == \E c \in HandleIds : HoldsRead(t, c) \/ HoldsWrite(t, c)

\* A thread that waits for a lock it cannot take now.
Waiting(t) ==
    /\ Running(t)
    /\ \/ Top(t).pc = "read"  /\ ~ CanRead(CellOf(Top(t).h))
       \/ Top(t).pc = "write" /\ ~ CanWrite(CellOf(Top(t).h))

\* A thread whose next step needs no lock it does not hold.
CanRun(t) == Running(t) /\ ~ Waiting(t)

\* C5: get_or_compute holds no cache lock while compute_fn runs, so no call by
\* another thread or from inside compute_fn is blocked by a running compute_fn,
\* and no deadlock is reachable: a lock is held only by the innermost call of a
\* thread, between taking the guard and the statement that drops it, and every
\* waiting thread waits for a thread that can run.
C5_NoLockAcrossCompute ==
    /\ \A t \in Threads :
            (Running(t) /\ Top(t).pc = "compute") => ~ HoldsAny(t)
    /\ \A t \in Threads : \A c \in HandleIds :
            /\ HoldsRead(t, c)  => Running(t) /\ Top(t).pc = "check" /\ CellOf(Top(t).h) = c
            /\ HoldsWrite(t, c) => Running(t) /\ Top(t).pc = "store" /\ CellOf(Top(t).h) = c
    /\ \A t \in Threads :
            Waiting(t) => \E u \in Threads \ {t} : CanRun(u) /\ HoldsAny(u)

\* While compute_fn runs in two threads, a call made from inside one of them
\* holds the write guard of the cell both work on.
C5_Witness ==
    \E t \in Threads, u \in Threads :
        /\ t # u
        /\ Depth(t) = 2
        /\ stack[t][1].pc = "compute"
        /\ stack[t][2].pc = "store"
        /\ Depth(u) = 1
        /\ Top(u).pc = "compute"
        /\ CellOf(Top(u).h) = CellOf(Top(t).h)

\* C6: under any interleaving the cached entry is either empty or exactly the
\* (transform, epoch) pair published by one get_or_compute call; and what a
\* get_or_compute call returns is either the transform of the entry present
\* when it took the read lock or the transform its own compute_fn returned.
C6_EntryIsOnePublication ==
    /\ \A h \in HandleSet :
        LET w == lastPub[handles[h].root]
            e == cells[CellOf(h)]
        IN  \/ ~ e.some
            \/ /\ w.op = "get_or_compute"
               /\ e.transform = w.entry.transform
               /\ e.epoch = w.entry.epoch
    /\ \A t \in Threads : \A i \in 1..Depth(t) :
        LET f == stack[t][i] IN
        (f.pc = "done" /\ f.op = "get_or_compute") =>
            \/ f.args = << >> /\ f.seen.some /\ f.retTransform = f.seen.transform
            \/ f.args = << f.epoch >> /\ f.retTransform = f.new_transform

\* Two overlapping misses for different epochs have both published; the entry
\* left is the pair of one of them.
C6_Witness ==
    \E t \in Threads, u \in Threads :
        /\ t # u
        /\ Returned(t) /\ Returned(u)
        /\ Top(t).op = "get_or_compute" /\ Top(u).op = "get_or_compute"
        /\ Top(t).args # << >> /\ Top(u).args # << >>
        /\ Top(t).epoch # Top(u).epoch
        /\ Top(t).new_transform # Top(u).new_transform
        /\ Top(t).seen = Top(u).seen
        /\ cells[CellOf(Top(t).h)] = CacheEntry(Top(t).new_transform, Top(t).epoch)

(***************************************************************************)
(* Claims about validate_epoch.                                            *)
(***************************************************************************)
\* C7: validate_epoch(utc) returns Err(EpochOutOfRange{epoch: utc, min_jd:
\* 2415020.5, max_jd: 2488070.5}) exactly when the UTC calendar year of utc is
\* before 1900 or after 2100, that is when utc is before 1900-01-01T00:00:00 (day
\* -25567) or not before 2101-01-01T00:00:00 (day 47847), and Ok(()) otherwise.
C7_ValidateEpochYears ==
    vResult.tag # "pending" =>
        IF vEpoch.days < -25567 \/ vEpoch.days >= 47847
        THEN /\ vResult.tag = "Err"
             /\ vResult.variant = "EpochOutOfRange"
             /\ vResult.epoch = vEpoch
             /\ vResult.min_jd = 24150205
             /\ vResult.max_jd = 24880705
        ELSE /\ vResult.tag = "Ok"
             /\ vResult.value = "unit"

\* The last second of 2100 has been accepted.
C7_Witness ==
    /\ vEpoch = DateTime(47846, 86399)
    /\ vResult.tag = "Ok"

(***************************************************************************)
(* Claims about TleElements::from_lines, checked under TleSpec.            *)
(***************************************************************************)
\* C8: from_lines never panics: for any pair of input strings, empty, too short
\* or non-ASCII ones included, the call returns Ok or Err.
C8_NeverPanics == tle.tag \in {"pending", "Ok", "Err"}

\* The number of characters of a line, which is not its number of bytes.
CharCount(line) == Len(line)

\* C9: whenever either line has fewer than 69 characters, or line 1 does not
\* start with '1', or line 2 does not start with '2', from_lines returns
\* Err(InvalidCoordinates), having parsed no field and produced no TleElements.
C9_MalformedLinesRejected ==
    ( /\ tle # Pending
      /\ \/ CharCount(line1) < 69
         \/ CharCount(line2) < 69
         \/ line1 = << >> \/ line1[1] # "1"
         \/ line2 = << >> \/ line2[1] # "2" )
        => /\ tle.tag = "Err"
           /\ tle.result.variant = "InvalidCoordinates"
           /\ tle.parsed = 0

\* The two characters of the epoch year field, columns 19 and 20 of line 1.
YearColumns == <<line1[19], line1[20]>>

DayColumns == SubSeq(line1, 21, 32)

\* The number the digit chars of cs spell.
RECURSIVE Spelled(_)
Spelled(cs) ==
    IF cs = << >> THEN 0
    ELSE 10 * Spelled(SubSeq(cs, 1, Len(cs) - 1)) + DigitVal(cs[Len(cs)])

\* 86400 * f / 10^8 rounded half up: 86400 / 10^8 = 27 / 31250.
Round8(f) == 27 * (f \div 31250) + (54 * (f % 31250) + 31250) \div 62500

\* 86400 * g / 10^7 rounded half up: 86400 / 10^7 = 27 / 3125.
Round7(g) == (54 * g + 3125) \div 6250

JanFirst(y) == DaysFromCivil(y, 1, 1)

Instant(days, seconds) ==
    DateTime(days + seconds \div 86400, seconds % 86400)

C11_EpochDecoding ==
    tle.tag = "Ok" =>
        /\ \* ddd.ffffffff
           ( /\ AllDigits(SubSeq(DayColumns, 1, 3))
             /\ DayColumns[4] = "."
             /\ AllDigits(SubSeq(DayColumns, 5, 12)) )
             => tle.result.value.epoch =
                    Instant(JanFirst(tle.epoch_year) + Spelled(SubSeq(DayColumns, 1, 3)) - 1,
                            Round8(Spelled(SubSeq(DayColumns, 5, 12))))
        /\ \* -ddd.fffffff with a fraction that is not zero
           ( /\ DayColumns[1] = "-"
             /\ AllDigits(SubSeq(DayColumns, 2, 4))
             /\ DayColumns[5] = "."
             /\ AllDigits(SubSeq(DayColumns, 6, 12))
             /\ Spelled(SubSeq(DayColumns, 6, 12)) > 0 )
             => tle.result.value.epoch =
                    Instant(JanFirst(tle.epoch_year)
                                - (Spelled(SubSeq(DayColumns, 2, 4)) + 1) - 1,
                            Round7(10000000 - Spelled(SubSeq(DayColumns, 6, 12))))
        /\ DayColumns = <<"0", "0", "1", ".", "0", "0", "0", "0", "0", "0", "0", "0">>
             => tle.result.value.epoch = DateTime(JanFirst(tle.epoch_year), 0)
        /\ (tle.epoch_year = 2020 /\ DayColumns = SubSeq(IssLine1, 21, 32))
             => /\ tle.result.value.epoch.days = DaysFromCivil(2020, 7, 24)
                /\ tle.result.value.epoch.secs = 16018

\* Day 366.99999999 of 2020 decoded: the seconds round up to a whole day, which
\* is 1 January 2021.
C11_Witness ==
    /\ tle.tag = "Ok"
    /\ tle.epoch_year = 2020
    /\ DayColumns = <<"3", "6", "6", ".", "9", "9", "9", "9", "9", "9", "9", "9">>
    /\ tle.result.value.epoch = DateTime(JanFirst(2021), 0)

\* C12: each of the nine numeric fields is trimmed of whitespace before it is
\* parsed: when every field holds a valid number, padded with spaces or not,
\* from_lines succeeds with the values of the unpadded numbers.
AsciiOnly(line) == \A i \in 1..Len(line) : line[i] \notin NonAscii

Columns(line, a, b) == SubSeq(line, a + 1, b)

TrimmedF64(line, a, b) == ParseF64(Trim(Columns(line, a, b)))

C12_AllFieldsTrimmed ==
    ( /\ tle # Pending
      /\ AsciiOnly(line1) /\ AsciiOnly(line2)
      /\ Len(line1) >= 69 /\ Len(line2) >= 69
      /\ line1[1] = "1" /\ line2[1] = "2"
      /\ ParseU32(Trim(Columns(line1, 2, 7))).ok
      /\ ParseI32(Trim(Columns(line1, 18, 20))).ok
      /\ TrimmedF64(line1, 20, 32).ok
      /\ TrimmedF64(line1, 20, 32).val.kind = "fin"
      /\ Len(TrimmedF64(line1, 20, 32).val.int) <= 3
      /\ TrimmedF64(line2, 8, 16).ok
      /\ TrimmedF64(line2, 17, 25).ok
      /\ ParseF64(<<"0", ".">> \o Trim(Columns(line2, 26, 33))).ok
      /\ TrimmedF64(line2, 34, 42).ok
      /\ TrimmedF64(line2, 43, 51).ok
      /\ TrimmedF64(line2, 52, 63).ok )
        => /\ tle.tag = "Ok"
           /\ tle.result.value.catalog_number = ParseU32(Trim(Columns(line1, 2, 7))).val
           /\ tle.result.value.inclination = TrimmedF64(line2, 8, 16).val
           /\ tle.result.value.raan = TrimmedF64(line2, 17, 25).val
           /\ tle.result.value.eccentricity =
                  ParseF64(<<"0", ".">> \o Trim(Columns(line2, 26, 33))).val
           /\ tle.result.value.arg_perigee = TrimmedF64(line2, 34, 42).val
           /\ tle.result.value.mean_anomaly = TrimmedF64(line2, 43, 51).val
           /\ tle.result.value.mean_motion = TrimmedF64(line2, 52, 63).val

\* C13: on success every field comes from its fixed column range: two inputs
\* that agree on the nine ranges and on the line numbers, and both pass the
\* length check, yield equal TleElements; the ISS lines yield catalog number
\* 25544, inclination 51.6461 and eccentricity 0.0001473.
Ranges1 == {<<2, 7>>, <<18, 20>>, <<20, 32>>}

Ranges2 == {<<8, 16>>, <<17, 25>>, <<26, 33>>, <<34, 42>>, <<43, 51>>, <<52, 63>>}

\* The chars of a line of n chars that are in none of the ranges rs and are
\* not the line number (for a line of ASCII chars).
Elsewhere(n, rs) == {i \in 2..n : \A r \in rs : ~ (r[1] < i /\ i <= r[2])}

Overwritten(line, at, c) == [i \in 1..Len(line) |-> IF i \in at THEN c ELSE line[i]]

\* Those of them that are next to a range.
Beside(n, rs) == {i \in Elsewhere(n, rs) : \E r \in rs : i = r[1] \/ i = r[2] + 1}

\* The line with all of its other columns changed, with one column next to a
\* range changed, or with more text after it.
Rewritings(line, rs) ==
    {Overwritten(line, Elsewhere(Len(line), rs), c) : c \in {"9", " "}}
        \cup {Overwritten(line, {i}, "9") : i \in Beside(Len(line), rs)}
        \cup {line \o <<"7", "7">>}

SameRanges(a, b, rs) ==
    \A r \in rs : /\ CanSlice(a, r[1], r[2])
                  /\ CanSlice(b, r[1], r[2])
                  /\ Slice(a, r[1], r[2]) = Slice(b, r[1], r[2])

C13_FixedColumns ==
    /\ tle.tag = "Ok" =>
         /\ \A other \in Rewritings(line1, Ranges1) :
              ( /\ SameRanges(other, line1, Ranges1)
                /\ other[1] = line1[1]
                /\ StrLen(other) >= 69 )
                  => from_lines(other, line2).result = tle.result
         /\ \A other \in Rewritings(line2, Ranges2) :
              ( /\ SameRanges(other, line2, Ranges2)
                /\ other[1] = line2[1]
                /\ StrLen(other) >= 69 )
                  => from_lines(line1, other).result = tle.result
    /\ (tle # Pending /\ line1 = IssLine1 /\ line2 = IssLine2) =>
         /\ tle.tag = "Ok"
         /\ tle.result.value.catalog_number = 25544
         /\ tle.result.value.inclination = Float("fin", FALSE, <<5, 1>>, <<6, 4, 6, 1>>)
         /\ tle.result.value.eccentricity =
                Float("fin", FALSE, << >>, <<0, 0, 0, 1, 4, 7, 3>>)

\* The ISS lines parsed, a rewriting of line 2 in column 16 agreeing with them.
C13_Witness ==
    /\ tle.tag = "Ok"
    /\ line1 = IssLine1 /\ line2 = IssLine2
    /\ \E other \in Rewritings(line2, Ranges2) :
         /\ other # line2
         /\ other[17] = "9"
         /\ SameRanges(other, line2, Ranges2)
         /\ from_lines(line1, other).result = tle.result

(***************************************************************************)
(* C14.  TleElements::propagate_to returns an error when the target epoch  *)
(* is outside the range of years that validate_epoch accepts.              *)
(***************************************************************************)
C14_ErrorOutsideValidRange ==
    tle_position # Pending /\ validate_epoch(tle_target).tag = "Err"
        => tle_position.tag = "Err"

(***************************************************************************)
(* C15.  The error variants: EpochOutOfRange comes from validate_epoch     *)
(* only, from_lines returns no variant but InvalidCoordinates,             *)
(* TimeScaleConversionFailed and NumericalPrecisionError come from         *)
(* nowhere, and every other operation returns a value whatever the epoch.  *)
(***************************************************************************)
\* The variant of a result that is an error.
IsError(r, variants) == r # Pending /\ r.tag = "Err" /\ r.variant \in variants

Reserved == {"TimeScaleConversionFailed", "NumericalPrecisionError"}

Returned16 == propagation # Pending /\ propagation.pc = "done"

C16_OnlyTrueAnomalyChanges ==
    /\ [](Returned16 =>
            /\ DOMAIN propagation.result = DOMAIN elements
            /\ \A f \in DOMAIN elements \ {"true_anomaly"} :
                 propagation.result[f] = elements[f])
    /\ [][elements' = elements]_vars

\* A propagation backwards in time has returned another true anomaly.
C16_Witness ==
    /\ Returned16
    /\ propagation.dt < 0
    /\ propagation.result.true_anomaly # elements.true_anomaly
    /\ elements.eccentricity # 0

(***************************************************************************)
(* C17.  The Kepler solver of propagate_to starts from E' = M', makes      *)
(* exactly 10 Newton updates without testing for convergence, and the      *)
(* call returns the true anomaly of the last iterate: every call that has  *)
(* begun returns, and what it returns is an ordinary record.               *)
(***************************************************************************)
InLoop == propagation # Pending /\ propagation.pc = "loop"

\* The next update would leave the iterate where it is.
Converged ==
    NewtonStep(propagation.e_anom, propagation.new_mean_anomaly, elements.eccentricity)
        = propagation.e_anom

C17_TenNewtonUpdates ==
    /\ [](InLoop /\ propagation.updates = 0
            => propagation.e_anom = propagation.new_mean_anomaly)
    /\ [](InLoop /\ propagation.updates < 10 => ENABLED NewtonUpdate /\ ~ ENABLED PropagateReturn)
    /\ [][InLoop /\ propagation'.pc = "loop"
            => /\ propagation'.updates = propagation.updates + 1
               /\ propagation'.e_anom =
                      NewtonStep(propagation.e_anom, propagation.new_mean_anomaly,
                                 elements.eccentricity)]_propagation
    /\ [][InLoop /\ propagation'.pc = "done"
            => /\ propagation.updates = 10
               /\ propagation'.e_anom = propagation.e_anom
               /\ propagation'.result.true_anomaly
                      \in HalfAngleAtan(propagation.e_anom, elements.eccentricity)
               /\ DOMAIN propagation'.result = DOMAIN elements]_propagation
    /\ (propagation # Pending ~> Returned16)

\* An eccentric orbit's call has returned after updates that had nothing left
\* to correct.
C17_Witness ==
    /\ Returned16
    /\ propagation.updates = 10
    /\ Converged
    /\ elements.eccentricity # 0
    /\ propagation.dt # 0

(***************************************************************************)
(* C18, as stated.  Whenever the orbit is not circular or the target epoch *)
(* differs from the current one, propagate_to returns a true anomaly other *)
(* than the input's.                                                       *)
(***************************************************************************)
C18_ChangesTrueAnomaly ==
    Returned16 /\ (elements.eccentricity # 0 \/ target_epoch # current_epoch)
        => propagation.result.true_anomaly # elements.true_anomaly

(***************************************************************************)
(* C18, amended.  Whenever the whole-second timestamps of the two epochs   *)
(* differ by a time that is not a whole number of orbital periods,         *)
(* propagate_to returns a true anomaly other than the input's; with equal  *)
(* timestamps and a true anomaly of 0 it returns 0, whatever the           *)
(* eccentricity.                                                           *)
(***************************************************************************)
\* The mean anomaly gained, in quarter turns.
Gained == MeanMotion(elements.semi_major_axis, elements.mu) * propagation.dt

C18_ChangesWithinPeriod ==
    Returned16 =>
        /\ Gained % 4 # 0 => propagation.result.true_anomaly # elements.true_anomaly
        /\ propagation.dt = 0 /\ elements.true_anomaly = 0
             => propagation.result.true_anomaly = 0

\* An eccentric orbit half a period after periapsis is at apoapsis.
C18_Witness ==
    /\ Returned16
    /\ elements.eccentricity # 0
    /\ elements.true_anomaly = 0
    /\ propagation.dt = 2
    /\ propagation.result.true_anomaly = 2

(***************************************************************************)
(* C19.  For the default elements (e = 0, all angles 0, mu of the Earth,   *)
(* a = 7000 km) to_state_vectors returns the position (a, 0, 0) and a      *)
(* velocity of magnitude sqrt(mu / a) along +Y; for every circular orbit   *)
(* the distance of the position from the origin is a, whatever the true    *)
(* anomaly.                                                                *)
(***************************************************************************)
\* The distance from the origin of a point on one of the axes.
DistanceOnAxis(pos) ==
    CASE Cardinality({n \in 1..3 : pos[n] # 0}) <= 1 -> Abs(pos[1]) + Abs(pos[2]) + Abs(pos[3])

C19_CircularStateVectors ==
    state_vectors # Pending =>
        /\ /\ elements.semi_major_axis = 7000 * 1000
           /\ elements.eccentricity = 0
           /\ elements.inclination = 0
           /\ elements.raan = 0
           /\ elements.argument_of_periapsis = 0
           /\ elements.true_anomaly = 0
           /\ elements.mu = MU_EARTH
           => /\ state_vectors.position = <<7000 * 1000, 0, 0>>
              \* halves[2] / 2 * sqrt(mu / p) = sqrt(MU_EARTH / a)
              /\ state_vectors.velocity =
                     [mu |-> MU_EARTH, p |-> 7000 * 1000, halves |-> <<0, 2, 0>>]
        /\ elements.eccentricity = 0
             => DistanceOnAxis(state_vectors.position) = elements.semi_major_axis

\* The state vectors of the default elements.
C19_Witness ==
    /\ state_vectors # Pending
    /\ elements = Default
    /\ state_vectors.position[1] = elements.semi_major_axis

(***************************************************************************)
(* C20.  mci_to_icrs_rotation is initialised at most once: whatever the    *)
(* interleaving of its first callers, all callers get the same reference   *)
(* and read the same quaternion there, the stored value never changes, and *)
(* later calls return without computing; polar_motion_correction does the  *)
(* same and its value is the identity.                                     *)
(***************************************************************************)
\* The references that the calls of the getter of s have returned so far.
ReturnedFor(s) ==
    UNION { {getting[t].returned[n].to :
                n \in {k \in 1..Len(getting[t].returned) :
                          getting[t].returned[k].getter = s}} :
            t \in Threads }

C20_InitialisedOnce ==
    /\ [](\A s \in Statics :
            /\ once[s].inits <= 1
            /\ Cardinality(ReturnedFor(s)) <= 1
            /\ \A r \in ReturnedFor(s) : once[s].value = {r.value}
            /\ Cardinality({t \in Threads : getting[t].pc = "compute"
                                              /\ getting[t].static = s}) <= 1)
    /\ [](\A r \in ReturnedFor("POLAR_MOTION_CORRECTION") : r.value = Identity)
    /\ [][\A s \in Statics : once[s].state = "complete" => once'[s] = once[s]]_vars

\* The first calls of mci_to_icrs_rotation by the two threads have raced: one
\* has run the initializer, the other has found no value and then the first
\* one's; a later call by each has found the value at once.
C20_Witness ==
    /\ once["MCI_TO_ICRS_ROTATION"].inits = 1
    /\ \A t \in Threads :
         /\ Len(getting[t].returned) = 2
         /\ \A n \in 1..2 : getting[t].returned[n].getter = "MCI_TO_ICRS_ROTATION"
         /\ getting[t].returned[2].path = "fast"
    /\ {getting[t].returned[1].path : t \in Threads} = {"ran", "waited"}

(***************************************************************************)
(* C27.  A hit of get_or_compute and a call of is_valid_for leave the      *)
(* stored entry as it is, transform and epoch: the window of validity      *)
(* stays at the epoch of the last miss.  Requests at t0, t0 + tol and      *)
(* t0 + 2 tol, for a tolerance of whole seconds, are a miss, a hit and a   *)
(* miss.                                                                   *)
(***************************************************************************)
\* The call in progress or just returned, and the epoch of the first call.
Call27 == Top(MainThread)

FirstEpoch == Call27.epoch - (ncalls - 1) * handles[1].tol

WholeSecondsTolerance ==
    handles[1].tol > 0 /\ handles[1].tol % TicksPerSecond = 0

Publishes(t) ==
    /\ Depth(t) > 0
    /\ Top(t).op = "get_or_compute"
    /\ Top(t).pc = "store"
    /\ Len(stack'[t]) = Depth(t)
    /\ stack'[t][Depth(t)].pc = "done"

C28_MissAlwaysPublishes ==
    /\ [][\A t \in Threads :
            Publishes(t) =>
                /\ cells'[CellOf(Top(t).h)] = CacheEntry(Top(t).new_transform, Top(t).epoch)
                /\ lastPub'[handles[Top(t).h].root].entry
                       = CacheEntry(Top(t).new_transform, Top(t).epoch)]_vars
    /\ [](\A t \in Threads :
            \* a call that has seen a miss has nothing left to decide
            Running(t) /\ Top(t).op = "get_or_compute" /\ Top(t).pc \in {"compute", "write", "store"}
                => Top(t).args = <<Top(t).epoch>>)
    /\ [](\A t \in Threads :
            Running(t) /\ Top(t).op = "get_or_compute" /\ Top(t).pc = "store"
                => ENABLED Publish(t))
    /\ [](\A h \in HandleSet :
            cells[CellOf(h)].some => cells[CellOf(h)] = lastPub[handles[h].root].entry)

\* invalidate() has returned, the one get_or_compute call of the run began
\* before the invalidate took effect, and the cache holds that call's entry.
C28_Witness ==
    \E t \in Threads, u \in Threads :
        /\ t # u
        /\ ncalls = 2
        /\ Returned(t) /\ Top(t).op = "get_or_compute"
        /\ Returned(u) /\ Top(u).op = "invalidate"
        /\ Top(t).startPub.op = "new"
        /\ lastPub[handles[Top(t).h].root].op = "get_or_compute"
        /\ cells[CellOf(Top(t).h)] = CacheEntry(Top(t).new_transform, Top(t).epoch)

(***************************************************************************)
(* C26.  The epochs validate_epoch accepts are those whose Julian Date     *)
(* lies inside the limits [min_jd, max_jd] = [2415020.5, 2488070.5] that   *)
(* it reports on failure: an accepted epoch is inside them and an epoch    *)
(* outside them is rejected.                                               *)
(***************************************************************************)
InsideReportedBounds(time) ==
    /\ JdLeq(JulianDateOfTenths(MinJdTenths), JulianDateOfTimestamp(time))
    /\ JdLeq(JulianDateOfTimestamp(time), JulianDateOfTenths(MaxJdTenths))

C26_AcceptedInsideReportedBounds ==
    vResult # Pending =>
        /\ vResult.tag = "Ok" => InsideReportedBounds(vEpoch)
        /\ ~ InsideReportedBounds(vEpoch) => vResult.tag = "Err"

(***************************************************************************)
(* C22.  With JD the Julian Date of the UTC instant's timestamp:           *)
(* utc_to_ut1 returns JD, utc_to_tai JD + 37 s, utc_to_tt JD + 69.184 s,   *)
(* and tt_to_utc_approx of the value of utc_to_tt returns JD; so           *)
(* JD <= TAI <= TT, the offsets being the same for every instant.          *)
(***************************************************************************)
Jd22 == JulianDateOfTimestamp(input)

C22_TimeScaleOffsets ==
    /\ output.utc_to_ut1 # Pending => output.utc_to_ut1 = Jd22
    /\ output.utc_to_tai # Pending =>
          /\ JdMinus(output.utc_to_tai, Jd22) = 37000
          /\ JdLeq(Jd22, output.utc_to_tai)
    /\ output.utc_to_tt # Pending =>
          /\ JdMinus(output.utc_to_tt, Jd22) = 37000 + 32184
          /\ JdLeq(utc_to_tai(input), output.utc_to_tt)
    /\ output.tt_to_utc_approx # Pending => output.tt_to_utc_approx = Jd22
    \* the Julian Date is the one utc_to_julian_date gives, in quarter days
    /\ input.secs % SecondsPerQuarterDay = 0 =>
          /\ Jd22.ms % (MillisPerDay \div 4) = 0
          /\ utc_to_julian_date(input)
                 = 4 * Jd22.days + Jd22.ms \div (MillisPerDay \div 4) + 9762350

\* All four conversions have been made on an instant from which TAI is still
\* on the day of the UTC instant and TT on the next.
C22_Witness ==
    /\ input.secs = 86362
    /\ output.utc_to_ut1 = Jd22
    /\ output.utc_to_tai = JulianDate(Jd22.days, 86399 * MillisPerSecond)
    /\ output.utc_to_tt = JulianDate(Jd22.days + 1, 31184)
    /\ output.tt_to_utc_approx = Jd22

(***************************************************************************)
(* C30.  As stated: earth_rotation_angle(jd) lies in [0, 2 pi) for every   *)
(* Julian Date, the dates before J2000 with a negative argument included.  *)
(***************************************************************************)
C30_EraInZeroTwoPi ==
    output # Pending => ~ output.negative /\ output.magnitude[TurnLimbs + 1] = 0

(***************************************************************************)
(* C30, amended.  earth_rotation_angle(jd) is 2 pi times the fractional    *)
(* part of 0.7790572732640 + 1.0027378119113546 (jd - J2000) taken with    *)
(* the sign of that argument: the argument less the angle is a whole       *)
(* number of turns, and the angle lies in [0, 2 pi) when the argument is   *)
(* not negative and in (-2 pi, 0] when it is negative.                     *)
(***************************************************************************)
Arg30 == EraArgument(input)

C30_EraHasSignOfArgument ==
    output # Pending =>
        /\ output.magnitude[TurnLimbs + 1] = 0
        /\ output.negative = (Arg30.negative /\ ~ ZeroLimbs(output.magnitude))
        \* argument - angle is a whole number of turns, nearer to zero than
        \* the argument
        /\ ~ LessLimbs(Arg30.magnitude, output.magnitude \o <<0>>)
        /\ ZeroLimbs(SubSeq(SubLimbs(Arg30.magnitude, output.magnitude \o <<0>>, 0),
                            1, TurnLimbs))
        \* before J2000 the argument is 0.779... less 1.0027... turns a day
        /\ Arg30.negative = (input <= J2000_JD - 4)

\* The angle of 1900-01-01T00:00:00Z has been computed and is negative.
C30_Witness ==
    /\ input = utc_to_julian_date(DateTime(FirstValidDay, 0))
    /\ output # Pending
    /\ output.negative

(***************************************************************************)
(* Claims about TleElements::to_keplerian, checked under KeplerSpec.       *)
(***************************************************************************)
\* The elements from_lines returned.
Parsed23 == tle.result.value

\* C23, as stated: every KeplerianElements value the public API gives, those
\* to_keplerian makes of a successfully parsed TLE included, has a > 0,
\* 0 <= e < 1 (0 or 1 half here) and i in [0, pi] (0 to 2 quarter turns).
C23_RecordInvariants ==
    elements # Pending =>
        /\ elements.semi_major_axis > 0
        /\ elements.eccentricity \in {0, 1}
        /\ elements.inclination \in 0..2

(***************************************************************************)
(* C24.  to_keplerian returns a semi-major axis a, in metres, with         *)
(* n^2 a^3 = mu_Earth for n = mean_motion * 2 pi / 86400 rad/s, which is   *)
(* between 6700 km and 6900 km for the mean motion of the ISS lines; the   *)
(* eccentricity, inclination, RAAN and argument of perigee are those of    *)
(* the TLE and mu is mu_Earth.                                             *)
(***************************************************************************)
\* pi^2 = 9.869604401089358..., in units of 10^-12: a bound on each side
PiSquaredBelow == <<1089, 440, 8696, 9>>

PiSquaredAbove == <<1090, 440, 8696, 9>>

\* constants.rs 43: 3.986004418e14 m^3/s^2
MuEarth == <<0, 4180, 6004, 398>>

\* mean_motion in units of 10^-8 revolution a day
Revolutions(mean_motion) ==
    NatOfDigits(mean_motion.int \o mean_motion.frac
                    \o Zeros(8 - Len(mean_motion.frac)))

\* a^3 * 4 pi^2 * mean_motion^2 in units of 10^-28 m^3/day^2, for pi^2 as given
AxisCubedRateSquared(a, pi2, mean_motion) ==
    TimesLimbs(TimesLimbs(TimesLimbs(LimbsOf(a), TimesLimbs(LimbsOf(a), LimbsOf(a))),
                          MulLimbs(pi2 \o <<0>>, 4, 0)),
               TimesLimbs(LimbsOf(Revolutions(mean_motion)),
                          LimbsOf(Revolutions(mean_motion))))

\* mu * 86400^2 in the same units
MuDaySquared ==
    Zeros(7) \o TimesLimbs(MuEarth, TimesLimbs(LimbsOf(SecondsPerDay), LimbsOf(SecondsPerDay)))

\* The axis with n^2 a^3 = mu lies strictly between lo and hi metres.
KeplerAxisBetween(lo, hi, mean_motion) ==
    /\ Less(AxisCubedRateSquared(lo, PiSquaredAbove, mean_motion), MuDaySquared)
    /\ Less(MuDaySquared, AxisCubedRateSquared(hi, PiSquaredBelow, mean_motion))

C24_AxisFromMeanMotion ==
    elements # Pending =>
        /\ KeplerAxisBetween(elements.semi_major_axis - 1, elements.semi_major_axis + 1,
                             Parsed23.mean_motion)
        /\ Parsed23.mean_motion = Float("fin", FALSE, <<1, 5>>, <<4, 9, 3, 0, 9, 4, 3, 2>>)
              => /\ elements.semi_major_axis > 6700 * 1000
                 /\ elements.semi_major_axis < 6900 * 1000
                 /\ KeplerAxisBetween(6700 * 1000, 6900 * 1000, Parsed23.mean_motion)
        \* the eccentricity in halves, the angles in quarter turns of 90 degrees
        /\ Parsed23.eccentricity
              = Float("fin", FALSE, << >>, IF elements.eccentricity = 1 THEN <<5>> ELSE << >>)
        /\ Parsed23.inclination.frac = << >>
        /\ NatOfDigits(Parsed23.inclination.int) = 90 * elements.inclination
        /\ Parsed23.raan.frac = << >>
        /\ NatOfDigits(Parsed23.raan.int) = 90 * elements.raan
        /\ Parsed23.arg_perigee.frac = << >>
        /\ NatOfDigits(Parsed23.arg_perigee.int) = 90 * elements.argument_of_periapsis
        /\ elements.mu = MU_EARTH

\* to_keplerian has been called on lines with the mean motion of the ISS, an
\* eccentricity of 0.5, an inclination of 90 degrees and a RAAN of 90 degrees.
C24_Witness ==
    /\ elements # Pending
    /\ elements.semi_major_axis = IssAxis
    /\ elements.eccentricity = 1
    /\ elements.inclination = 1
    /\ elements.raan = 1
    /\ elements.argument_of_periapsis = 1

(***************************************************************************)
(* C29.  to_keplerian puts the mean anomaly of the TLE, unconverted, in    *)
(* the true_anomaly field; so for an eccentricity above 0 and a mean       *)
(* anomaly that is no multiple of pi the true anomaly returned is not the  *)
(* one Kepler's equation gives for that mean anomaly: the mean anomaly     *)
(* that belongs to the returned true anomaly is another one.               *)
(***************************************************************************)
\* orbital.rs 193-194: ecc_anomaly - e * sin(ecc_anomaly) for
\* ecc_anomaly = 2 atan(tan(nu / 2) / sqrt((1 + e) / (1 - e))), in thousandths
\* of a quarter turn, as a pair of bounds.  For e = 1/2 and nu a quarter turn
\* ecc_anomaly is pi / 3 and the mean anomaly pi / 3 - sqrt(3) / 4 = 0.6141...
\* rad = 0.3910... quarter turn.
MeanAnomalyOf(nu, e2) ==
    CASE e2 = 0 \/ nu % 2 = 0 -> <<1000 * nu, 1000 * nu>>
      [] e2 = 1 /\ nu % 4 = 1 -> <<1000 * (nu - 1) + 390, 1000 * (nu - 1) + 392>>
      [] e2 = 1 /\ nu % 4 = 3 -> <<1000 * (nu + 1) - 392, 1000 * (nu + 1) - 390>>

Within(bounds, x) == bounds[1] <= x /\ x <= bounds[2]

C29_MeanAnomalyAsTrueAnomaly ==
    elements # Pending =>
        /\ Parsed23.mean_anomaly.frac = << >>
        /\ NatOfDigits(Parsed23.mean_anomaly.int) = 90 * elements.true_anomaly
        /\ (elements.eccentricity > 0 /\ elements.true_anomaly % 2 # 0)
              => ~ Within(MeanAnomalyOf(elements.true_anomaly, elements.eccentricity),
                          1000 * elements.true_anomaly)
        /\ (elements.eccentricity = 0 \/ elements.true_anomaly % 2 = 0)
              => Within(MeanAnomalyOf(elements.true_anomaly, elements.eccentricity),
                        1000 * elements.true_anomaly)

\* to_keplerian has been called on lines with an eccentricity of 0.5 and a
\* mean anomaly of 90 degrees.
C29_Witness ==
    /\ elements # Pending
    /\ elements.eccentricity = 1
    /\ elements.true_anomaly = 1
    /\ Parsed23.mean_anomaly = Float("fin", FALSE, <<9, 0>>, << >>)

(***************************************************************************)
(* C25.  For a right ascension in [0, 2 pi), a declination strictly        *)
(* between -pi/2 and pi/2 and a distance above 0,                          *)
(* to_spherical_celestial(from_ra_dec(ra, dec, r)) is (ra, dec, r) again;  *)
(* for every coordinate the right ascension returned lies in [0, 2 pi),    *)
(* and at the origin the declination returned is 0.                        *)
(***************************************************************************)
InsidePoles(dec) == dec # Direction(1, 0) /\ dec # Direction(0 - 1, 0)

C25_SphericalRoundTrip ==
    output.spherical # Pending =>
        /\ (InsidePoles(input.dec) /\ input.distance > 0) => output.spherical = input
        /\ output.spherical.ra.q \in 0..3
        /\ output.spherical.ra.a \in 0..2
        /\ output.coordinate = <<0, 0, 0>> => output.spherical.dec = Direction(0, 0)
        /\ output.spherical.distance = input.distance

\* The round trip has been made for a right ascension above pi, where atan2
\* is negative, and a declination below 0.
C25_Witness ==
    /\ input = [ra |-> Direction(3, 1), dec |-> Direction(0 - 1, 2), distance |-> 50]
    /\ output.spherical = input
    /\ output.coordinate = <<24, 0 - 32, 0 - 30>>

(***************************************************************************)
(* C21.  For every instant t, ecef_to_icrs_at(t) is the inverse of         *)
(* icrs_to_ecef_at(t), which is built from the rotation of the instant     *)
(* without nutation and a zero translation: taking an ICRS coordinate      *)
(* through icrs_to_ecef_at(t) and then ecef_to_icrs_at(t) gives the        *)
(* coordinate again.  Likewise icrs_to_mci() is the inverse of             *)
(* mci_to_icrs().                                                          *)
(***************************************************************************)
Rotation21 ==
    rotation_from_quaternion(icrs_to_ecef_rotation_with_nutation(input.time, FALSE))

====
